---------------------------- MODULE Spec2Model ----------------------------
(***************************************************************************)
(* A model of the cloudscape renderer (hiddentao/clouds): the cloud        *)
(* re-shading operations of the data worker, the CloudFragment object and  *)
(* the fragment lifecycle of CloudscapeRenderer.                           *)
(*                                                                         *)
(* Numbers.  The program computes with IEEE doubles in [0,1] (densities,   *)
(* colour channels, shadow factors, light directions).  The model keeps    *)
(* them as integers in thousandths (SCALE = 1000 stands for 1.0), and a    *)
(* product a*b of two such numbers is (a*b) \div SCALE.  Packed colours    *)
(* are the program's 24-bit integers.                                      *)
(*                                                                         *)
(* Scheduling.  The main thread is a JavaScript event loop: a handler runs *)
(* to its next await without interleaving, so every action of the model is *)
(* one such run.  A worker call is a message in workerQueue; the single    *)
(* worker answers in FIFO order and the answer resumes the awaiting code.  *)
(***************************************************************************)
EXTENDS Integers, Sequences, FiniteSets, TLC

SCALE == 1000

Min(a, b) == IF a <= b THEN a ELSE b
Max(a, b) == IF a >= b THEN a ELSE b
Mul(a, b) == (a * b) \div SCALE
Range(s) == {s[i] : i \in DOMAIN s}

(***************************************************************************)
(* Lighting descriptors (SkyGradient).  id is the object's identity: the   *)
(* sky-gradient service answers through a worker boundary, so every        *)
(* descriptor it returns is a fresh object, and `!==` on two descriptors   *)
(* compares identities.  id 0 is null.                                     *)
(***************************************************************************)
NoGradient ==
    [id |-> 0, lightDirection |-> [x |-> 0, y |-> 0],
     cloudBaseColor |-> <<0, 0, 0>>, cloudHighlightColor |-> <<0, 0, 0>>,
     cloudShadowColor |-> <<0, 0, 0>>, gradientType |-> "none"]

IsNull(g) == g.id = 0

TimesOfDay == {"solar_noon", "afternoon", "sunset", "deep_night"}

getCloudColorsForTimeOfDay(timeOfDay) ==
    CASE timeOfDay \in {"deep_night", "night_before_dawn", "night_after_dusk"} ->
           [cloudBaseColor |-> <<700, 700, 750>>,
            cloudHighlightColor |-> <<850, 850, 900>>,
            cloudShadowColor |-> <<500, 500, 550>>]
      [] timeOfDay \in {"dawn", "dusk"} ->
           [cloudBaseColor |-> <<600, 600, 650>>,
            cloudHighlightColor |-> <<750, 750, 800>>,
            cloudShadowColor |-> <<400, 400, 450>>]
      [] timeOfDay \in {"sunrise", "sunset"} ->
           [cloudBaseColor |-> <<900, 850, 800>>,
            cloudHighlightColor |-> <<1000, 950, 900>>,
            cloudShadowColor |-> <<500, 400, 450>>]
      [] OTHER ->
           [cloudBaseColor |-> <<950, 950, 950>>,
            cloudHighlightColor |-> <<1000, 1000, 1000>>,
            cloudShadowColor |-> <<500, 550, 700>>]

\* The normalised vector from the phase's sun position to the centre (0.5, 0.5).
calculateSunViewportPosition(timeOfDay) ==
    CASE timeOfDay \in {"dawn", "sunrise", "morning"} -> [x |-> -981, y |-> 196]
      [] timeOfDay \in {"solar_noon_transition", "solar_noon"} -> [x |-> 0, y |-> 1000]
      [] timeOfDay \in {"afternoon", "evening_transition", "sunset"} ->
           [x |-> 981, y |-> 196]
      [] OTHER -> [x |-> 0, y |-> -1000]

shouldUseRadialGradient(timeOfDay) ==
    timeOfDay \notin {"deep_night", "night_before_dawn", "night_after_dusk", "dusk"}

\* The untransitioned branch of generateSkyGradient, returned as object `id`.
generateSkyGradient(id, timeOfDay) ==
    LET c == getCloudColorsForTimeOfDay(timeOfDay) IN
    [id |-> id,
     lightDirection |-> calculateSunViewportPosition(timeOfDay),
     cloudBaseColor |-> c.cloudBaseColor,
     cloudHighlightColor |-> c.cloudHighlightColor,
     cloudShadowColor |-> c.cloudShadowColor,
     gradientType |-> IF shouldUseRadialGradient(timeOfDay) THEN "radial" ELSE "linear"]

SameValue(g, h) ==
    /\ IsNull(g) = IsNull(h)
    /\ g.lightDirection = h.lightDirection
    /\ g.cloudBaseColor = h.cloudBaseColor
    /\ g.cloudHighlightColor = h.cloudHighlightColor
    /\ g.cloudShadowColor = h.cloudShadowColor
    /\ g.gradientType = h.gradientType

(***************************************************************************)
(* The data worker: colour mapping and the two re-shading operations.      *)
(***************************************************************************)
DefaultLightDir == [x |-> -200, y |-> -800]

lightDirOf(g) == IF IsNull(g) THEN DefaultLightDir ELSE g.lightDirection

isDaytimeOf(g) ==
    /\ ~IsNull(g)
    /\ g.cloudBaseColor[1] > 800
    /\ g.cloudBaseColor[2] > 800
    /\ g.cloudBaseColor[3] > 800

PackRGB(r, g, b) == r * 65536 + g * 256 + b

\* Math.round(Math.min(255, c * 255)) of a channel in thousandths.
Channel255(c) == Min(255, (c * 255 + 500) \div SCALE)

calculatePixelColorLogic(pixelInfo, skyGradient) ==
    IF ~IsNull(skyGradient) THEN
      LET baseColor == skyGradient.cloudBaseColor
          highlightColor == skyGradient.cloudHighlightColor
          shadowColor == skyGradient.cloudShadowColor
          darkeningFactor == pixelInfo.depthDarkeningFactor
          depthShadowMultiplier == 800 + Mul(pixelInfo.depth, 200)
          adjBase == IF pixelInfo.isDaytime
                       THEN [i \in 1..3 |-> Mul(baseColor[i], darkeningFactor)]
                       ELSE baseColor
          adjShadow == IF pixelInfo.isDaytime
                         THEN Mul(pixelInfo.shadowFactor, depthShadowMultiplier)
                         ELSE pixelInfo.shadowFactor
          highlightMix == ((adjShadow - 700) * SCALE) \div 300
          shadowMix == (adjShadow * SCALE) \div 700
          mixed == IF adjShadow > 700
                     THEN [i \in 1..3 |->
                             adjBase[i] + Mul(highlightColor[i] - adjBase[i], highlightMix)]
                     ELSE [i \in 1..3 |->
                             shadowColor[i] + Mul(adjBase[i] - shadowColor[i], shadowMix)]
          brightnessVariation == 850 + Mul(pixelInfo.brightness, 150)
          final == [i \in 1..3 |-> Min(SCALE, Mul(mixed[i], brightnessVariation))]
      IN  PackRGB(Channel255(final[1]), Channel255(final[2]), Channel255(final[3]))
    ELSE
      LET gray == (pixelInfo.brightness * 255) \div SCALE
      IN  PackRGB(gray, gray, gray)

(***************************************************************************)
(* A pixel entry.  kind says what the entry is at run time:                *)
(*   "ok"        an object whose required fields are all numbers/booleans  *)
(*   "null"      null (fails `!prop || typeof prop !== 'object'`)          *)
(*   "nodensity" an object whose density is not a number                   *)
(*   "nonx"      an object whose nx/ny are not numbers (well-formed for    *)
(*               recalculatePixelColors, malformed for ...AndShadows)      *)
(***************************************************************************)
IsObject(prop) == prop.kind # "null"

HasColorFieldsUnchecked(prop) == TRUE

HasColorFields(prop) == prop.kind \in {"ok", "nonx"}

HasShadowFields(prop) == prop.kind = "ok"

ColorInfo(prop, shadowFactor, brightness, isDaytime) ==
    [density |-> prop.density, isEdge |-> prop.isEdge,
     edgeDistance |-> prop.edgeDistance,
     shadowFactor |-> shadowFactor, brightness |-> brightness,
     depth |-> prop.depth,
     depthDarkeningFactor |-> IF isDaytime THEN SCALE - Mul(prop.depth, 400) ELSE SCALE,
     isDaytime |-> isDaytime]

RECURSIVE recalculatePixelColorsFrom(_, _, _)
recalculatePixelColorsFrom(pixelProps, newSkyGradient, i) ==
    IF i > Len(pixelProps) THEN <<>>
    ELSE LET prop == pixelProps[i]
             rest == recalculatePixelColorsFrom(pixelProps, newSkyGradient, i + 1)
         IN  IF ~IsObject(prop) THEN rest
             ELSE IF ~HasColorFields(prop) THEN rest
             ELSE <<calculatePixelColorLogic(
                      ColorInfo(prop, prop.shadowFactor, prop.brightness,
                                isDaytimeOf(newSkyGradient)),
                      newSkyGradient)>> \o rest

recalculatePixelColors(pixelProps, newSkyGradient) ==
    IF Len(pixelProps) = 0 THEN <<>>
    ELSE recalculatePixelColorsFrom(pixelProps, newSkyGradient, 1)

newShadowFactorOf(prop, lightDir) ==
    LET pixelToLightDot == Mul(prop.nx, lightDir.x) + Mul(prop.ny, lightDir.y)
        baseShadowFactor == Max(0, Min(SCALE, (pixelToLightDot + SCALE) \div 2))
        dense == Mul(baseShadowFactor, 700 + Mul(prop.density, 300))
        edged == IF prop.isEdge THEN Max(dense, 600) ELSE dense
    IN  Max(100, Min(SCALE, edged))

\* The re-shaded brightness with a depth multiplier that starts at 0.6.
newBrightnessFromSixTenths(prop, newShadowFactor, fragmentData) ==
    LET depthBrightnessMultiplier == 600 + Mul(fragmentData.depth, 400)
        base == IF prop.isEdge
                  THEN Mul(700 + Mul(prop.density, 200), depthBrightnessMultiplier)
                  ELSE Mul(600 + Mul(prop.density, 300), depthBrightnessMultiplier)
        shaded == Mul(base, 800 + Mul(newShadowFactor, 200))
    IN  Max(300, Min(SCALE, shaded))

newBrightnessOf(prop, newShadowFactor, fragmentData) ==
    LET depthBrightnessMultiplier == 700 + Mul(fragmentData.depth, 400)
        base == IF prop.isEdge
                  THEN Mul(700 + Mul(prop.density, 200), depthBrightnessMultiplier)
                  ELSE Mul(600 + Mul(prop.density, 300), depthBrightnessMultiplier)
        shaded == Mul(base, 800 + Mul(newShadowFactor, 200))
    IN  Max(300, Min(SCALE, shaded))

RECURSIVE recalculatePixelColorsAndShadowsFrom(_, _, _, _)
recalculatePixelColorsAndShadowsFrom(pixelProps, newSkyGradient, fragmentData, i) ==
    IF i > Len(pixelProps) THEN [colors |-> <<>>, updatedPixelProps |-> <<>>]
    ELSE LET prop == pixelProps[i]
             rest == recalculatePixelColorsAndShadowsFrom(
                       pixelProps, newSkyGradient, fragmentData, i + 1)
         IN  IF ~IsObject(prop) THEN rest
             ELSE IF ~HasShadowFields(prop) THEN rest
             ELSE LET sf == newShadowFactorOf(prop, lightDirOf(newSkyGradient))
                      br == newBrightnessOf(prop, sf, fragmentData)
                      updatedProp == [prop EXCEPT !.shadowFactor = sf, !.brightness = br]
                      color == calculatePixelColorLogic(
                                 ColorInfo(prop, sf, br, isDaytimeOf(newSkyGradient)),
                                 newSkyGradient)
                  IN  [colors |-> <<color>> \o rest.colors,
                       updatedPixelProps |-> <<updatedProp>> \o rest.updatedPixelProps]

recalculatePixelColorsAndShadows(pixelProps, newSkyGradient, fragmentData) ==
    IF Len(pixelProps) = 0 THEN [colors |-> <<>>, updatedPixelProps |-> <<>>]
    ELSE recalculatePixelColorsAndShadowsFrom(pixelProps, newSkyGradient, fragmentData, 1)


(***************************************************************************)
(* Synthesis of one pixel (generateFullCloudData, the body of its grid     *)
(* loop).  The density field, the organic boundary and the texture noise   *)
(* at the cell are inputs: geom = [nx, ny, density, isEdge, edgeDistance,  *)
(* texNoise], texNoise being perlin.noise(..) * 0.1.                       *)
(***************************************************************************)
synthBrightnessOf(geom, fragmentData) ==
    LET depthBrightnessMultiplier == 800 + Mul(fragmentData.depth, 300)
        textured == 700 + Mul(geom.density, 200) + geom.texNoise
    IN  Max(400, Min(SCALE, Mul(textured, depthBrightnessMultiplier)))

synthAlphaOf(geom, fragmentData) ==
    LET visible == Max(300, geom.density)
        edged == IF geom.isEdge THEN Mul(visible, 800) ELSE visible
    IN  Max(200, Min(SCALE, Mul(edged, fragmentData.density)))

\* The synthesis as it would be without the pre-calculated daytime flag and
\* depth factor in the colour information.
generatePixelNoDepthLighting(geom, fragmentData, initialSkyGradient) ==
    LET sf == newShadowFactorOf(geom, lightDirOf(initialSkyGradient))
        br == synthBrightnessOf(geom, fragmentData)
        prop == [kind |-> "ok", nx |-> geom.nx, ny |-> geom.ny,
                 density |-> geom.density, isEdge |-> geom.isEdge,
                 edgeDistance |-> geom.edgeDistance, shadowFactor |-> sf,
                 brightness |-> br, alpha |-> synthAlphaOf(geom, fragmentData),
                 color |-> 0, depth |-> fragmentData.depth]
    IN  [prop EXCEPT !.color =
           calculatePixelColorLogic(ColorInfo(prop, sf, br, FALSE), initialSkyGradient)]

generatePixel(geom, fragmentData, initialSkyGradient) ==
    LET sf == newShadowFactorOf(geom, lightDirOf(initialSkyGradient))
        br == synthBrightnessOf(geom, fragmentData)
        prop == [kind |-> "ok", nx |-> geom.nx, ny |-> geom.ny,
                 density |-> geom.density, isEdge |-> geom.isEdge,
                 edgeDistance |-> geom.edgeDistance, shadowFactor |-> sf,
                 brightness |-> br, alpha |-> synthAlphaOf(geom, fragmentData),
                 color |-> 0, depth |-> fragmentData.depth]
    IN  [prop EXCEPT !.color =
           calculatePixelColorLogic(
             ColorInfo(prop, sf, br, isDaytimeOf(initialSkyGradient)),
             initialSkyGradient)]

(***************************************************************************)
(* CloudFragment.                                                          *)
(*   displayObject.destroyed, renderTexture ("live" or "null") and raster  *)
(*   (the colours last rendered into the render texture) stand for the     *)
(*   PIXI objects; released counts the destroy() calls made on each of     *)
(*   them; shadowLightDir is the light direction the stored shadow factors *)
(*   were computed with.                                                   *)
(***************************************************************************)
ReleaseCap == 3

Bump(n) == Min(n + 1, ReleaseCap)

newCloudFragment(fullCloudData, skyGradient) ==
    [data |-> fullCloudData.fragmentData,
     pixelProperties |-> fullCloudData.pixelProperties,
     skyGradient |-> skyGradient,
     isUpdatingSkyGradient |-> FALSE,
     hasBeenDrawn |-> FALSE,
     displayObject |-> [destroyed |-> FALSE],
     renderTexture |-> "live",
     raster |-> <<>>,
     released |-> [displayObject |-> 0, renderTexture |-> 0, graphicsForTexture |-> 0],
     shadowLightDir |-> lightDirOf(skyGradient)]

HasNullPixel(pixelProperties) ==
    \E i \in DOMAIN pixelProperties : ~IsObject(pixelProperties[i])

\* redrawToRenderTexture: reading pixel.color of a null entry is a TypeError,
\* raised before renderer.render is reached.
redrawThrows(cloud) ==
    cloud.renderTexture # "null" /\ HasNullPixel(cloud.pixelProperties)

redrawToRenderTexture(cloud) ==
    IF cloud.renderTexture = "null" \/ HasNullPixel(cloud.pixelProperties)
      THEN cloud
      ELSE [cloud EXCEPT !.raster =
              [i \in DOMAIN cloud.pixelProperties |-> cloud.pixelProperties[i].color]]

\* The tail of updateSkyGradient's try block with its catch and finally.
redrawAndFinish(cloud) ==
    IF redrawThrows(cloud)
      THEN [cloud |-> [cloud EXCEPT !.isUpdatingSkyGradient = FALSE],
            redrew |-> FALSE, caught |-> TRUE]
      ELSE [cloud |-> [redrawToRenderTexture(cloud) EXCEPT
                         !.hasBeenDrawn = TRUE, !.isUpdatingSkyGradient = FALSE],
            redrew |-> cloud.renderTexture # "null", caught |-> FALSE]

busyGuardOff(cloud) == FALSE

busyGuard(cloud) == cloud.isUpdatingSkyGradient

skyGradientChanged(cloud, skyGradient) == cloud.skyGradient.id # skyGradient.id

lightDirectionChanged(cloud, skyGradient) ==
    /\ skyGradientChanged(cloud, skyGradient)
    /\ ~IsNull(cloud.skyGradient)
    /\ ~IsNull(skyGradient)
    /\ \/ cloud.skyGradient.lightDirection.x # skyGradient.lightDirection.x
       \/ cloud.skyGradient.lightDirection.y # skyGradient.lightDirection.y

needsRedraw(cloud, skyGradient) ==
    \/ skyGradientChanged(cloud, skyGradient)
    \/ cloud.renderTexture = "null"
    \/ ~cloud.hasBeenDrawn

NoCall == [kind |-> "none"]

(***************************************************************************)
(* updateSkyGradient up to its await (or to its end when it does not       *)
(* await).  outcome: "busy" (dropped by the guard), "destroyed" (empty     *)
(* pixel array), "unchanged" (nothing to do), "drawn" (redraw only),       *)
(* "awaiting" (a worker call was issued).                                  *)
(***************************************************************************)
updateSkyGradientEnter(cloud, skyGradient) ==
    IF busyGuard(cloud) THEN
      [cloud |-> cloud, call |-> NoCall, outcome |-> "busy",
       redrew |-> FALSE, caught |-> FALSE]
    ELSE IF Len(cloud.pixelProperties) = 0 THEN
      [cloud |-> cloud, call |-> NoCall, outcome |-> "destroyed",
       redrew |-> FALSE, caught |-> FALSE]
    ELSE IF ~needsRedraw(cloud, skyGradient) THEN
      [cloud |-> cloud, call |-> NoCall, outcome |-> "unchanged",
       redrew |-> FALSE, caught |-> FALSE]
    ELSE IF skyGradientChanged(cloud, skyGradient) THEN
      [cloud |-> [cloud EXCEPT !.isUpdatingSkyGradient = TRUE,
                               !.skyGradient = skyGradient],
       call |-> [kind |-> IF lightDirectionChanged(cloud, skyGradient)
                            THEN "shadows" ELSE "colors",
                 pixelProps |-> cloud.pixelProperties,
                 skyGradient |-> skyGradient,
                 fragmentData |-> cloud.data],
       outcome |-> "awaiting", redrew |-> FALSE, caught |-> FALSE]
    ELSE
      LET r == redrawAndFinish([cloud EXCEPT !.isUpdatingSkyGradient = TRUE])
      IN  [cloud |-> r.cloud, call |-> NoCall, outcome |-> "drawn",
           redrew |-> r.redrew, caught |-> r.caught]

\* The worker's answer to a re-shading call, computed from the cloned arguments.
workerResult(call) ==
    IF call.kind = "shadows"
      THEN recalculatePixelColorsAndShadows(call.pixelProps, call.skyGradient,
                                            call.fragmentData)
      ELSE [colors |-> recalculatePixelColors(call.pixelProps, call.skyGradient),
            updatedPixelProps |-> <<>>]

\* The fallback loops: pixelProperties[i].color = colors[i] for i < minLength,
\* which throws at the first null entry it reaches.
FirstNullUpTo(pixelProperties, n) ==
    LET nulls == {i \in 1..n : ~IsObject(pixelProperties[i])}
    IN  IF nulls = {} THEN 0 ELSE CHOOSE i \in nulls : \A j \in nulls : i <= j

writeColorPrefix(pixelProperties, colors) ==
    LET minLength == Min(Len(colors), Len(pixelProperties))
        stop == FirstNullUpTo(pixelProperties, minLength)
        last == IF stop = 0 THEN minLength ELSE stop - 1
    IN  [pixelProperties |->
           [i \in DOMAIN pixelProperties |->
              IF i <= last THEN [pixelProperties[i] EXCEPT !.color = colors[i]]
                           ELSE pixelProperties[i]],
         threw |-> stop # 0]

clearedAfterAwaitOff(cloud) == FALSE

\* "Double-check that the cloud hasn't been destroyed while we were waiting".
clearedAfterAwait(cloud) == Len(cloud.pixelProperties) = 0

\* updateSkyGradient from the answer of its worker call to its end.
updateSkyGradientResume(cloud, call, result) ==
    IF clearedAfterAwait(cloud) THEN
      [cloud |-> [cloud EXCEPT !.isUpdatingSkyGradient = FALSE],
       outcome |-> "discarded", redrew |-> FALSE, caught |-> FALSE, mismatch |-> FALSE]
    ELSE
      LET n == Len(cloud.pixelProperties)
          full == IF call.kind = "shadows"
                    THEN Len(result.colors) = n /\ Len(result.updatedPixelProps) = n
                    ELSE Len(result.colors) = n
          prefix == writeColorPrefix(cloud.pixelProperties, result.colors)
          written ==
            IF full /\ call.kind = "shadows" THEN
              [cloud EXCEPT
                 !.pixelProperties =
                    [i \in 1..n |-> [result.updatedPixelProps[i] EXCEPT
                                       !.color = result.colors[i]]],
                 !.shadowLightDir = lightDirOf(call.skyGradient)]
            ELSE [cloud EXCEPT !.pixelProperties = prefix.pixelProperties]
          threw == ~full /\ prefix.threw
          fin == redrawAndFinish(written)
      IN  IF threw
            THEN [cloud |-> [written EXCEPT !.isUpdatingSkyGradient = FALSE],
                  outcome |-> "applied", redrew |-> FALSE, caught |-> TRUE,
                  mismatch |-> TRUE]
            ELSE [cloud |-> fin.cloud, outcome |-> "applied", redrew |-> fin.redrew,
                  caught |-> fin.caught, mismatch |-> ~full]

\* A destroy() that releases nothing and leaves the fragment as it is.
destroyNothing(cloud) == cloud

\* CloudFragment.destroy as the earlier revision of the class had it: unguarded.
destroyNoGuard(cloud) ==
    [cloud EXCEPT
       !.displayObject.destroyed = TRUE,
       !.released.displayObject = Bump(@),
       !.released.renderTexture = IF cloud.renderTexture # "null" THEN Bump(@) ELSE @,
       !.renderTexture = "null",
       !.released.graphicsForTexture = Bump(@),
       !.pixelProperties = <<>>]

destroy(cloud) ==
    IF cloud.displayObject.destroyed THEN cloud
    ELSE [cloud EXCEPT
            !.displayObject.destroyed = TRUE,
            !.released.displayObject = Bump(@),
            !.released.renderTexture = IF cloud.renderTexture # "null" THEN Bump(@) ELSE @,
            !.renderTexture = "null",
            !.released.graphicsForTexture = Bump(@),
            !.pixelProperties = <<>>]

(***************************************************************************)
(* State.                                                                  *)
(*   heap         the CloudFragment objects created so far, by object id   *)
(*   workerQueue  the worker calls issued and not yet answered             *)
(*   lastOp       what the last handler run did (for stating the claims)   *)
(*   request      the arguments of a direct call of a worker operation      *)
(*   response     what that call returned                                   *)
(*   renderer     the CloudscapeRenderer object's fields                     *)
(*   tasks        the async calls of renderer methods suspended at an await  *)
(*   gradientQueue  the sun updates waiting for the sky-gradient service     *)
(*   budget       how many more external events the environment produces     *)
(***************************************************************************)
VARIABLES heap, workerQueue, lastOp, request, response,
          renderer, tasks, gradientQueue, budget

fragVars == <<heap, workerQueue, lastOp>>

pureVars == <<request, response>>

rendVars == <<renderer, tasks, gradientQueue, budget>>

vars == <<heap, workerQueue, lastOp, request, response,
          renderer, tasks, gradientQueue, budget>>

NoRequest == [kind |-> "none"]

NoResponse == [state |-> "none"]

NoRenderer == [started |-> FALSE]

NoBudget == [ticks |-> 0, settings |-> 0, times |-> 0, failures |-> 0]

RendererIdle ==
    /\ renderer = NoRenderer
    /\ tasks = <<>>
    /\ gradientQueue = <<>>
    /\ budget = NoBudget

MaxPixels == 2

PixelKinds == {"ok", "null", "nodensity", "nonx"}

Depths == {0, 1000}

Geom(i) ==
    CASE i = 1 -> [nx |-> -500, ny |-> -500, density |-> 800, isEdge |-> FALSE,
                   edgeDistance |-> 300, texNoise |-> 20]
      [] i = 2 -> [nx |-> 500, ny |-> 250, density |-> 300, isEdge |-> TRUE,
                   edgeDistance |-> 50, texNoise |-> -30]
      [] OTHER -> [nx |-> 0, ny |-> 750, density |-> 600, isEdge |-> FALSE,
                   edgeDistance |-> 150, texNoise |-> 0]

NullEntry ==
    [kind |-> "null", nx |-> 0, ny |-> 0, density |-> 0, isEdge |-> FALSE,
     edgeDistance |-> 0, shadowFactor |-> 0, brightness |-> 0, alpha |-> 0,
     color |-> 0, depth |-> 0]

\* An entry as it arrives from the worker boundary: well-formed or malformed.
Entry(kind, prop) ==
    CASE kind = "ok" -> prop
      [] kind = "null" -> NullEntry
      [] kind = "nodensity" -> [prop EXCEPT !.kind = "nodensity", !.density = 0]
      [] OTHER -> [prop EXCEPT !.kind = "nonx", !.nx = 0, !.ny = 0]

PixelShapes == UNION {[1..n -> PixelKinds] : n \in 0..MaxPixels}

FragmentData(depth) ==
    [x |-> 0, depth |-> depth, depthLayer |-> 0, speedMultiplier |-> SCALE,
     speed |-> 0, density |-> 800]

\* What generateFullCloudData returns for a grid whose retained cells are
\* Geom(1..n), with the entries' run-time kinds given by shape.
generateFullCloudData(shape, fragmentData, initialSkyGradient) ==
    [fragmentData |-> fragmentData,
     pixelProperties |->
       [i \in DOMAIN shape |->
          Entry(shape[i], generatePixel(Geom(i), fragmentData, initialSkyGradient))]]

\* The descriptor objects the fragment is handed: objects 1 and 2 are equal in
\* value, 3 differs from them in light direction only, 4 from 3 in palette only.
GradientPool ==
    {generateSkyGradient(1, "solar_noon"), generateSkyGradient(2, "solar_noon"),
     generateSkyGradient(3, "afternoon"), generateSkyGradient(4, "sunset")}

NoOp ==
    [op |-> "init", cloud |-> 0, skyGradient |-> NoGradient, outcome |-> "none",
     issued |-> "none", redrew |-> FALSE, caught |-> FALSE, mismatch |-> FALSE]

InitFragment ==
    /\ \E shape \in PixelShapes, depth \in Depths,
          g \in {NoGradient, generateSkyGradient(1, "solar_noon")} :
         heap = [id \in {1} |->
                   newCloudFragment(
                     generateFullCloudData(shape, FragmentData(depth), g), g)]
    /\ workerQueue = <<>>
    /\ lastOp = NoOp
    /\ request = NoRequest
    /\ response = NoResponse
    /\ RendererIdle

\* A caller invokes cloud.updateSkyGradient(skyGradient, renderer).
CallUpdateSkyGradient(id, skyGradient) ==
    LET r == updateSkyGradientEnter(heap[id], skyGradient) IN
    /\ heap' = [heap EXCEPT ![id] = r.cloud]
    /\ workerQueue' = IF r.call.kind = "none" THEN workerQueue
                      ELSE Append(workerQueue, [cloud |-> id] @@ r.call)
    /\ lastOp' = [op |-> "updateSkyGradient", cloud |-> id,
                  skyGradient |-> skyGradient, outcome |-> r.outcome,
                  issued |-> r.call.kind, redrew |-> r.redrew,
                  caught |-> r.caught, mismatch |-> FALSE]

\* The worker answers the oldest re-shading call; updateSkyGradient resumes.
ReshadeReply ==
    /\ workerQueue # <<>>
    /\ Head(workerQueue).kind \in {"colors", "shadows"}
    /\ LET call == Head(workerQueue)
           r == updateSkyGradientResume(heap[call.cloud], call, workerResult(call))
       IN  /\ heap' = [heap EXCEPT ![call.cloud] = r.cloud]
           /\ workerQueue' = Tail(workerQueue)
           /\ lastOp' = [op |-> "reply", cloud |-> call.cloud,
                         skyGradient |-> call.skyGradient, outcome |-> r.outcome,
                         issued |-> call.kind, redrew |-> r.redrew,
                         caught |-> r.caught, mismatch |-> r.mismatch]

\* A caller invokes cloud.destroy().
CallDestroy(id) ==
    /\ heap' = [heap EXCEPT ![id] = destroy(heap[id])]
    /\ lastOp' = [NoOp EXCEPT !.op = "destroy", !.cloud = id,
                              !.outcome = IF heap[id].displayObject.destroyed
                                            THEN "again" ELSE "first"]
    /\ UNCHANGED workerQueue

FragUpdateSkyGradient ==
    /\ \E g \in GradientPool \cup {NoGradient} : CallUpdateSkyGradient(1, g)
    /\ UNCHANGED <<pureVars, rendVars>>

FragReshadeReply == ReshadeReply /\ UNCHANGED <<pureVars, rendVars>>

FragDestroy == CallDestroy(1) /\ UNCHANGED <<pureVars, rendVars>>

NextFragment == FragUpdateSkyGradient \/ FragReshadeReply \/ FragDestroy

SpecFragment == InitFragment /\ [][NextFragment]_vars


(***************************************************************************)
(* Properties of one fragment (SpecFragment).                              *)
(***************************************************************************)
\* The re-shading calls of fragment id that the worker has not answered yet.
InFlight(id) ==
    Cardinality({i \in DOMAIN workerQueue : workerQueue[i].cloud = id})

\* What a completed or entered call may touch of a fragment without writing
\* pixels, raster or the drawn mark.
SamePixelsAndRaster(c, d) ==
    /\ d.pixelProperties = c.pixelProperties
    /\ d.raster = c.raster
    /\ d.hasBeenDrawn = c.hasBeenDrawn
    /\ d.skyGradient = c.skyGradient

\* C1: a fragment never has more than one re-shading call in flight, and an
\* updateSkyGradient call made while an earlier one is in flight is dropped:
\* it issues no call and changes nothing of the fragment.
C1_BusyDropsRequest ==
    [][\A id \in DOMAIN heap :
         /\ InFlight(id)' <= 1
         /\ (lastOp'.op = "updateSkyGradient" /\ lastOp'.cloud = id /\ InFlight(id) >= 1)
              => (heap'[id] = heap[id] /\ workerQueue' = workerQueue)]_vars

C1_Witness ==
    /\ lastOp.op = "updateSkyGradient"
    /\ lastOp.outcome = "busy"
    /\ InFlight(lastOp.cloud) = 1
    /\ lastOp.skyGradient.id # heap[lastOp.cloud].skyGradient.id

\* C2: once a fragment is destroyed, the completion of a call that was in
\* flight and every later updateSkyGradient call write no pixel, redraw
\* nothing, raise no error and issue no further call.
C2_DestroyedIsInert ==
    [][\A id \in DOMAIN heap :
         (/\ heap[id].displayObject.destroyed
          /\ lastOp'.op \in {"reply", "updateSkyGradient"}
          /\ lastOp'.cloud = id)
           => /\ SamePixelsAndRaster(heap[id], heap'[id])
              /\ ~lastOp'.redrew
              /\ ~lastOp'.caught
              /\ ~lastOp'.mismatch
              /\ Len(workerQueue') <= Len(workerQueue)]_vars

C2_Witness ==
    /\ lastOp.op = "reply"
    /\ lastOp.outcome = "discarded"
    /\ heap[lastOp.cloud].displayObject.destroyed
    /\ ~heap[lastOp.cloud].isUpdatingSkyGradient

\* C3: destroy on an already destroyed fragment changes nothing, and no
\* resource of a fragment is ever released twice.
C3_DestroyIdempotent ==
    [][\A id \in DOMAIN heap :
         /\ heap'[id].released.displayObject <= 1
         /\ heap'[id].released.renderTexture <= 1
         /\ heap'[id].released.graphicsForTexture <= 1
         /\ (lastOp'.op = "destroy" /\ lastOp'.cloud = id
             /\ heap[id].displayObject.destroyed) => heap'[id] = heap[id]]_vars

C3_Witness ==
    /\ lastOp.op = "destroy"
    /\ lastOp.outcome = "again"
    /\ heap[lastOp.cloud].released.displayObject = 1
    /\ heap[lastOp.cloud].released.renderTexture = 1

AllWellFormed(cloud) ==
    \A i \in DOMAIN cloud.pixelProperties : cloud.pixelProperties[i].kind = "ok"

\* C9: updateSkyGradient issues a worker call or redraws only when the
\* fragment was never drawn or the descriptor differs in value from the held
\* one (stated for fragments whose pixel entries are all well-formed).
C9_CallOnlyOnValueChange ==
    [][\A id \in DOMAIN heap :
         (/\ AllWellFormed(heap[id])
          /\ lastOp'.op = "updateSkyGradient"
          /\ lastOp'.cloud = id
          /\ (lastOp'.issued # "none" \/ lastOp'.redrew))
           => \/ ~heap[id].hasBeenDrawn
              \/ ~SameValue(heap[id].skyGradient, lastOp'.skyGradient)]_vars

\* C10: a re-shading call recomputes the shadows exactly when the new
\* descriptor's light direction differs from the one the fragment's shadow
\* factors were last computed with (the synthesis default when none was
\* given); stated for fragments whose pixel entries are all well-formed.
C10_ShadowsIffDirectionDiffers ==
    [][\A id \in DOMAIN heap :
         (/\ AllWellFormed(heap[id])
          /\ lastOp'.op = "updateSkyGradient"
          /\ lastOp'.cloud = id
          /\ lastOp'.issued # "none"
          /\ ~IsNull(lastOp'.skyGradient))
           => (lastOp'.issued = "shadows"
                 <=> lightDirOf(lastOp'.skyGradient) # heap[id].shadowLightDir)]_vars

(***************************************************************************)
(* The worker operations called directly, on every argument array the      *)
(* bounds allow (the empty array included).                                *)
(***************************************************************************)
InitWorker ==
    /\ \E kind \in {"colors", "shadows"}, shape \in PixelShapes, depth \in Depths,
          g \in GradientPool \cup {NoGradient} :
         request =
           [kind |-> kind,
            pixelProps |->
              generateFullCloudData(shape, FragmentData(depth), NoGradient).pixelProperties,
            skyGradient |-> g,
            fragmentData |-> FragmentData(depth)]
    /\ response = NoResponse
    /\ heap = <<>>
    /\ workerQueue = <<>>
    /\ lastOp = NoOp
    /\ RendererIdle

WorkerRecalculatePixelColors ==
    /\ request.kind = "colors"
    /\ response.state = "none"
    /\ response' =
         [state |-> "returned",
          colors |-> recalculatePixelColors(request.pixelProps, request.skyGradient),
          updatedPixelProps |-> <<>>]
    /\ UNCHANGED <<request, fragVars, rendVars>>

WorkerRecalculatePixelColorsAndShadows ==
    /\ request.kind = "shadows"
    /\ response.state = "none"
    /\ response' =
         [state |-> "returned"] @@
         recalculatePixelColorsAndShadows(request.pixelProps, request.skyGradient,
                                          request.fragmentData)
    /\ UNCHANGED <<request, fragVars, rendVars>>

NextWorker == WorkerRecalculatePixelColors \/ WorkerRecalculatePixelColorsAndShadows

SpecWorker == InitWorker /\ [][NextWorker]_vars


(***************************************************************************)
(* Properties of the worker operations (SpecWorker).                       *)
(***************************************************************************)
\* An entry the operation of the given kind does not skip.
WellFormedFor(kind, prop) ==
    prop.kind = "ok" \/ (kind = "colors" /\ prop.kind = "nonx")

\* The positions of the well-formed entries of the request, in input order.
KeptIndices ==
    SelectSeq([i \in 1..Len(request.pixelProps) |-> i],
              LAMBDA i : WellFormedFor(request.kind, request.pixelProps[i]))

\* The colour the operation owes entry prop.
ExpectedColor(prop) ==
    LET g == request.skyGradient
        sf == IF request.kind = "shadows"
                THEN newShadowFactorOf(prop, lightDirOf(g)) ELSE prop.shadowFactor
        br == IF request.kind = "shadows"
                THEN newBrightnessOf(prop, sf, request.fragmentData) ELSE prop.brightness
    IN  calculatePixelColorLogic(ColorInfo(prop, sf, br, isDaytimeOf(g)), g)

\* C4: both re-shading operations return for every input array: the empty
\* array gives empty results, and otherwise there is one result per
\* well-formed entry, in input order, only the malformed entries being skipped.
C4_ReshadeSkipsOnlyMalformed ==
    response.state = "returned" =>
      LET kept == KeptIndices IN
      /\ Len(response.colors) = Len(kept)
      /\ \A k \in 1..Len(kept) :
           response.colors[k] = ExpectedColor(request.pixelProps[kept[k]])
      /\ request.kind = "shadows" =>
           /\ Len(response.updatedPixelProps) = Len(kept)
           /\ \A k \in 1..Len(kept) :
                LET p == request.pixelProps[kept[k]]
                    u == response.updatedPixelProps[k]
                IN  u.nx = p.nx /\ u.ny = p.ny /\ u.density = p.density
      /\ Len(request.pixelProps) = 0 =>
           response.colors = <<>> /\ response.updatedPixelProps = <<>>

C4_Witness ==
    /\ response.state = "returned"
    /\ Len(request.pixelProps) = 2
    /\ ~WellFormedFor(request.kind, request.pixelProps[1])
    /\ WellFormedFor(request.kind, request.pixelProps[2])
    /\ Len(response.colors) = 1


(***************************************************************************)
(* CloudscapeRenderer.  Positions are in pixels; a depth-layer key LAYER_i *)
(* is the number i.  The renderer's methods are written as functions from  *)
(* a world w = [heap, workerQueue, renderer, tasks, gradientQueue, log] to *)
(* the world after the method has run to its next await.  A task is the    *)
(* suspended call of an async method: pc is the await it is at, parent the *)
(* task awaiting it (0: nobody), pending the number of promises it still   *)
(* waits for.  A promise that settles resumes its awaiter in the same      *)
(* event-loop turn, so a completion runs the awaiter's continuation within *)
(* the same action.                                                        *)
(***************************************************************************)
RESPAWN_MARGIN == 400

ScreenWidth == 800

\* The scale ranges of the earlier generateDepthLayers, growing with depth.
generateDepthLayersGrowing(numLayers) ==
    [i \in 0..(numLayers - 1) |->
       LET depth == (i * SCALE) \div (numLayers - 1)
       IN  [depth |-> depth, speedMultiplier |-> 100 + Mul(depth, 1400),
            scaleRange |-> [min |-> 300 + Mul(depth, 500),
                            max |-> 600 + Mul(depth, 1000)]]]

generateDepthLayers(numLayers) ==
    [i \in 0..(numLayers - 1) |->
       LET depth == (i * SCALE) \div (numLayers - 1)
           inverseDepth == SCALE - depth
       IN  [depth |-> depth, speedMultiplier |-> 100 + Mul(depth, 1400),
            scaleRange |-> [min |-> 400 + Mul(inverseDepth, 600),
                            max |-> 500 + Mul(inverseDepth, 600)]]]

initializeDepthLayers(r) ==
    LET layers == generateDepthLayers(r.cloudSettings.depthLayers)
    IN  [r EXCEPT !.currentDepthLayers = layers,
                  !.depthContainers = [k \in DOMAIN layers |-> {}]]

calculateCloudCountsPerLayer(r) ==
    [k \in DOMAIN r.currentDepthLayers |->
       LET depthRatio == 300 + Mul(r.currentDepthLayers[k].depth, 700)
       IN  Max(1, (r.cloudSettings.cloudCount * depthRatio) \div SCALE)]

NoConfig == [depth |-> 0, speedMultiplier |-> 0]

NoX == [given |-> FALSE, value |-> 0]

NoSettings == [cloudCount |-> 0, speed |-> 0, depthLayers |-> 0]

NewTask(kind, pc, parent) ==
    [kind |-> kind, pc |-> pc, parent |-> parent, pending |-> 0,
     key |-> 0, config |-> NoConfig, x |-> NoX, gradient |-> NoGradient,
     cloud |-> 0, newClouds |-> <<>>, specs |-> <<>>, index |-> 0,
     time |-> "none", dt |-> 0, checkDue |-> FALSE, settings |-> NoSettings]

FreshTask(ts) ==
    CHOOSE i \in 1..(Cardinality(DOMAIN ts) + 1) :
      i \notin DOMAIN ts /\ \A j \in 1..(i - 1) : j \in DOMAIN ts

PutTask(ts, t, task) == [i \in DOMAIN ts \cup {t} |-> IF i = t THEN task ELSE ts[i]]

DropTask(ts, t) == [i \in DOMAIN ts \ {t} |-> ts[i]]

\* One more promise for task p to wait for (p = 0: the call is not awaited).
AddPending(ts, p) == IF p = 0 THEN ts ELSE [ts EXCEPT ![p].pending = @ + 1]

NoSpawnLog ==
    [result |-> "none", key |-> 0, listBefore |-> <<>>, listAfter |-> <<>>,
     containersBefore |-> <<>>, containersAfter |-> <<>>]

NoCleanupLog == [ran |-> FALSE, due |-> <<>>, replacements |-> <<>>]

NoLog ==
    [op |-> "none", spawn |-> NoSpawnLog, cleanup |-> NoCleanupLog,
     dropped |-> {}, spawnCalls |-> <<>>]

World ==
    [heap |-> heap, workerQueue |-> workerQueue, renderer |-> renderer,
     tasks |-> tasks, gradientQueue |-> gradientQueue, log |-> NoLog]

RECURSIVE completeTask(_, _, _)
RECURSIVE continueTask(_, _)
RECURSIVE spawnEach(_, _, _, _)
RECURSIVE callEach(_, _, _)

\* A promise task t waits for has settled.
awaitDone(w, t) ==
    LET left == w.tasks[t].pending - 1
        w1 == [w EXCEPT !.tasks[t].pending = left]
    IN  IF left = 0 THEN continueTask(w1, t) ELSE w1

\* cloud.updateSkyGradient(this.currentSkyGradient, renderer), awaited by waiter.
callUpdateSkyGradient(w, id, waiter) ==
    LET r == updateSkyGradientEnter(w.heap[id], w.renderer.currentSkyGradient)
        issued == r.call.kind # "none"
    IN  [w EXCEPT
           !.heap[id] = r.cloud,
           !.workerQueue =
              IF issued THEN Append(@, [cloud |-> id, waiter |-> waiter] @@ r.call) ELSE @,
           !.tasks[waiter].pending = IF issued THEN @ + 1 ELSE @,
           !.log.dropped = IF r.outcome = "busy" THEN @ \cup {id} ELSE @]

callEach(w, ids, waiter) ==
    IF ids = <<>> THEN w
    ELSE callEach(callUpdateSkyGradient(w, Head(ids), waiter), Tail(ids), waiter)

\* spawnCloud up to its await of CloudFragment.create.  Every caller passes
\* targetLayerKey, so the random choice of a layer is never taken.
spawnCloud(w, initialX, targetLayerKey, initialSkyGradientForWorker, parent) ==
    LET layers == w.renderer.currentDepthLayers IN
    IF targetLayerKey \notin DOMAIN layers THEN
      [w EXCEPT !.log.spawnCalls =
                   Append(@, [key |-> targetLayerKey, result |-> "null"])]
    ELSE
      LET t == FreshTask(w.tasks)
          task == [NewTask("spawn", "create", parent) EXCEPT
                     !.key = targetLayerKey, !.config = layers[targetLayerKey],
                     !.x = initialX, !.gradient = initialSkyGradientForWorker]
      IN  [w EXCEPT
             !.tasks = PutTask(AddPending(@, parent), t, task),
             !.workerQueue =
                Append(@, [cloud |-> 0, waiter |-> t, kind |-> "generate",
                           skyGradient |-> initialSkyGradientForWorker,
                           depthLayers |-> layers]),
             !.log.spawnCalls =
                Append(@, [key |-> targetLayerKey, result |-> "started"])]

\* spawnCloud(x, key, this.currentSkyGradient) for every entry of specs.
spawnEach(w, specs, i, parent) ==
    IF i > Len(specs) THEN w
    ELSE spawnEach(spawnCloud(w, specs[i].x, specs[i].key,
                              w.renderer.currentSkyGradient, parent),
                   specs, i + 1, parent)

spawnX(task, draw) ==
    IF task.x.given THEN task.x.value
    ELSE ScreenWidth + (RESPAWN_MARGIN + 100) + (draw * 600) \div SCALE
           + ((SCALE - task.config.depth) * 200) \div SCALE

\* spawnCloud from the answer of the synthesis call on.
spawnCloudCreated(w, t, fullCloudData, draw) ==
    LET task == w.tasks[t]
        r == w.renderer
        id == Len(w.heap) + 1
        created == newCloudFragment(fullCloudData, task.gradient)
        cloud == [created EXCEPT
                    !.data.depthLayer = task.key,
                    !.data.depth = task.config.depth,
                    !.data.speedMultiplier = task.config.speedMultiplier,
                    !.data.speed = Mul(r.cloudSettings.speed, task.config.speedMultiplier),
                    !.data.x = spawnX(task, draw)]
        pushed == [w EXCEPT !.heap = Append(@, cloud),
                            !.renderer.cloudFragments = Append(@, id),
                            !.tasks[t].cloud = id]
        logged(v, result) ==
          [v EXCEPT !.log.spawn =
             [result |-> result, key |-> task.key,
              listBefore |-> r.cloudFragments,
              listAfter |-> v.renderer.cloudFragments,
              containersBefore |-> r.depthContainers,
              containersAfter |-> v.renderer.depthContainers]]
    IN  IF task.key \notin DOMAIN r.depthContainers THEN
          completeTask(logged(pushed, "null"), t, 0)
        ELSE
          LET added == [pushed EXCEPT !.renderer.depthContainers[task.key] = @ \cup {id}]
              shaded == callUpdateSkyGradient(added, id, t)
          IN  IF shaded.tasks[t].pending > 0
                THEN [logged(shaded, "awaiting") EXCEPT !.tasks[t].pc = "shade"]
                ELSE completeTask(logged(shaded, "cloud"), t, id)


\* spawnCloud when CloudFragment.create rejects: the catch block returns null.
spawnCloudFailed(w, t) ==
    LET r == w.renderer
        logged == [w EXCEPT !.log.spawn =
                     [result |-> "null", key |-> w.tasks[t].key,
                      listBefore |-> r.cloudFragments, listAfter |-> r.cloudFragments,
                      containersBefore |-> r.depthContainers,
                      containersAfter |-> r.depthContainers]]
    IN  completeTask(logged, t, 0)

\* The worker has answered a re-shading call: updateSkyGradient runs to its
\* end and the promise its caller awaits settles.
reshadeAnswered(w, call) ==
    LET r == updateSkyGradientResume(w.heap[call.cloud], call, workerResult(call))
    IN  awaitDone([w EXCEPT !.heap[call.cloud] = r.cloud], call.waiter)

offScreenLate(cloud) == cloud.data.x < -RESPAWN_MARGIN * 3

\* The clean-up test of checkAndSpawnClouds.
offScreen(cloud) == cloud.data.x < -RESPAWN_MARGIN * 2

\* The clean-up step of checkAndSpawnClouds: every off-screen cloud is
\* detached, destroyed and spliced out, and a replacement spawn is queued.
cleanUp(w, t) ==
    LET r == w.renderer
        cloudsToRemove == SelectSeq(r.cloudFragments, LAMBDA id : offScreen(w.heap[id]))
        gone == Range(cloudsToRemove)
        removed ==
          [w EXCEPT
             !.heap = [id \in DOMAIN @ |-> IF id \in gone THEN destroy(@[id]) ELSE @[id]],
             !.renderer.depthContainers =
                [k \in DOMAIN @ |->
                   @[k] \ {id \in gone : w.heap[id].data.depthLayer = k}],
             !.renderer.cloudFragments = SelectSeq(@, LAMBDA id : id \notin gone)]
        specs == [i \in DOMAIN cloudsToRemove |->
                    [x |-> NoX, key |-> w.heap[cloudsToRemove[i]].data.depthLayer]]
        replaced == spawnEach(removed, specs, 1, t)
        logged == [replaced EXCEPT !.log.cleanup =
                     [ran |-> TRUE, due |-> cloudsToRemove,
                      replacements |->
                        SubSeq(replaced.log.spawnCalls, Len(w.log.spawnCalls) + 1,
                               Len(replaced.log.spawnCalls))]]
    IN  IF cloudsToRemove = <<>>
          THEN completeTask([w EXCEPT !.log.cleanup.ran = TRUE], t, 0)
        ELSE IF logged.tasks[t].pending > 0
          THEN [logged EXCEPT !.tasks[t].pc = "replacements"]
        ELSE completeTask(logged, t, 0)

RECURSIVE FlattenLayers(_, _, _)
FlattenLayers(f, k, n) == IF k >= n THEN <<>> ELSE f[k] \o FlattenLayers(f, k + 1, n)

\* checkAndSpawnClouds, run as task t, up to its first await.
checkAndSpawnClouds(w, t) ==
    IF w.renderer.isUpdatingSettings THEN completeTask(w, t, 0)
    ELSE
      LET r == w.renderer
          targetCountsByLayer == calculateCloudCountsPerLayer(r)
          visibleClouds ==
            {id \in Range(r.cloudFragments) :
               /\ w.heap[id].data.x > -RESPAWN_MARGIN
               /\ w.heap[id].data.x < ScreenWidth + RESPAWN_MARGIN * 2}
          currentCount(k) ==
            Cardinality({id \in visibleClouds : w.heap[id].data.depthLayer = k})
          actualSpawnCount(k) == Max(0, Min(targetCountsByLayer[k] - currentCount(k), 2))
          specs == FlattenLayers(
                     [k \in DOMAIN targetCountsByLayer |->
                        [j \in 1..actualSpawnCount(k) |-> [x |-> NoX, key |-> k]]],
                     0, Cardinality(DOMAIN targetCountsByLayer))
          spawned == spawnEach(w, specs, 1, t)
      IN  IF spawned.tasks[t].pending > 0
            THEN [spawned EXCEPT !.tasks[t].pc = "spawns"]
            ELSE cleanUp(spawned, t)

\* The end of update(deltaTime): cloud.update(deltaTime) for every live cloud.
updateFinish(w, u) ==
    LET live == Range(w.renderer.cloudFragments)
        dt == w.tasks[u].dt
    IN  [w EXCEPT
           !.heap = [id \in DOMAIN w.heap |->
                       IF id \in live
                         THEN [w.heap[id] EXCEPT
                                 !.data.x = @ - (w.heap[id].data.speed * dt) \div SCALE]
                         ELSE w.heap[id]],
           !.tasks = DropTask(@, u)]

\* update(deltaTime) after its sun update: the throttled spawn check.
updateAfterSun(w, u) ==
    IF w.tasks[u].checkDue THEN
      LET c == FreshTask(w.tasks)
          w1 == [w EXCEPT !.tasks = PutTask([@ EXCEPT ![u].pc = "check", ![u].pending = 1],
                                            c, NewTask("check", "start", u))]
      IN  checkAndSpawnClouds(w1, c)
    ELSE updateFinish(w, u)

\* The wall clock: the phase `new Date()` falls in.
Now == "solar_noon"

\* updateSunPosition up to its await of the sky-gradient service.
updateSunPosition(w, parent) ==
    LET s == FreshTask(w.tasks)
        timeToUse == IF w.renderer.customTime # "none" THEN w.renderer.customTime ELSE Now
    IN  [w EXCEPT
           !.tasks = PutTask(AddPending(@, parent), s,
                             [NewTask("sun", "gradient", parent) EXCEPT !.time = timeToUse]),
           !.gradientQueue = Append(@, s)]

update(w, sunDue, checkDue, deltaTime) ==
    LET u == FreshTask(w.tasks)
        w1 == [w EXCEPT !.tasks = PutTask(@, u, [NewTask("update", "sun", 0) EXCEPT
                                                   !.dt = deltaTime, !.checkDue = checkDue])]
    IN  IF sunDue THEN updateSunPosition(w1, u) ELSE updateAfterSun(w1, u)

\* The significance test of updateSunPosition.
skyGradientChangedSignificantly(current, new) ==
    \/ IsNull(current)
    \/ current.gradientType # new.gradientType
    \/ current.lightDirection.x - new.lightDirection.x > 10
    \/ new.lightDirection.x - current.lightDirection.x > 10
    \/ current.lightDirection.y - new.lightDirection.y > 10
    \/ new.lightDirection.y - current.lightDirection.y > 10
    \/ \E i \in 1..3 : \/ current.cloudBaseColor[i] - new.cloudBaseColor[i] > 50
                       \/ new.cloudBaseColor[i] - current.cloudBaseColor[i] > 50

GradientIdsInUse(w) ==
    {w.renderer.currentSkyGradient.id}
      \cup {w.heap[i].skyGradient.id : i \in DOMAIN w.heap}
      \cup {w.tasks[t].gradient.id : t \in DOMAIN w.tasks}
      \cup {w.workerQueue[i].skyGradient.id : i \in DOMAIN w.workerQueue}

\* The identity of the next descriptor object: any identity no longer referenced.
FreshGradientId(w) ==
    LET used == GradientIdsInUse(w)
    IN  CHOOSE i \in 1..(Cardinality(used) + 1) :
          i \notin used /\ \A j \in 1..(i - 1) : j \in used

BATCH_SIZE == 10

sunAfterBatch(w, s) ==
    LET i == w.tasks[s].index IN
    IF i + BATCH_SIZE < Len(w.renderer.cloudFragments)
      THEN [w EXCEPT !.tasks[s].pc = "delay", !.tasks[s].index = i + BATCH_SIZE]
      ELSE completeTask(w, s, 0)

\* One round of updateSunPosition's loop over the live list.
sunBatch(w, s) ==
    LET list == w.renderer.cloudFragments
        i == w.tasks[s].index
        batch == SubSeq(list, i + 1, Min(i + BATCH_SIZE, Len(list)))
        called == callEach(w, batch, s)
    IN  IF i >= Len(list) THEN completeTask(w, s, 0)
        ELSE IF called.tasks[s].pending > 0 THEN [called EXCEPT !.tasks[s].pc = "batch"]
        ELSE sunAfterBatch(called, s)

\* updateSunPosition from the service's answer on.
sunGradientReady(w, s) ==
    LET newSkyGradient == generateSkyGradient(FreshGradientId(w), w.tasks[s].time)
        changed == skyGradientChangedSignificantly(w.renderer.currentSkyGradient,
                                                   newSkyGradient)
        w1 == [w EXCEPT !.renderer.currentSkyGradient = newSkyGradient]
    IN  IF changed THEN sunBatch(w1, s) ELSE completeTask(w1, s, 0)


SPAWN_BATCH_SIZE == 5

DRAW_BATCH_SIZE == 10

CLEANUP_BATCH_SIZE == 20

\* The positions createInitialClouds plans for a layer of targetCount clouds;
\* spacingDraw and clusterDraw are what Math.random() returns in its loop.
planLayer(key, targetCount, spacingDraw, clusterDraw) ==
    LET visibleClouds == Max(1, (targetCount * 600) \div SCALE)
        offScreenClouds == targetCount - visibleClouds
        startX == -RESPAWN_MARGIN - ScreenWidth \div 2
        targetSpacing == ((ScreenWidth * 25) \div 10) \div Max(1, offScreenClouds)
        spacingVariation == ((spacingDraw - 500) * ((targetSpacing * 8) \div 10)) \div SCALE
        step == IF clusterDraw < 150
                  THEN (targetSpacing * 3) \div 10 + spacingVariation \div 2
                ELSE IF clusterDraw < 250
                  THEN (targetSpacing * 17) \div 10 + spacingVariation
                ELSE targetSpacing + spacingVariation
    IN  [i \in 1..visibleClouds |->
           [x |-> [given |-> TRUE,
                   value |-> ((i - 1) * ((ScreenWidth * 8) \div 10))
                               \div Max(1, visibleClouds - 1) + ScreenWidth \div 10],
            key |-> key]]
        \o [j \in 1..offScreenClouds |->
              [x |-> [given |-> TRUE, value |-> startX + j * step], key |-> key]]

initialAfterDraw(w, t) ==
    LET i == w.tasks[t].index IN
    IF i + DRAW_BATCH_SIZE < Len(w.tasks[t].newClouds)
      THEN [w EXCEPT !.tasks[t].pc = "drawDelay", !.tasks[t].index = i + DRAW_BATCH_SIZE]
      ELSE completeTask(w, t, 0)

\* One round of createInitialClouds' drawing loop.
initialDraw(w, t) ==
    LET newClouds == w.tasks[t].newClouds
        i == w.tasks[t].index
        drawBatch == SubSeq(newClouds, i + 1, Min(i + DRAW_BATCH_SIZE, Len(newClouds)))
        drawn == IF IsNull(w.renderer.currentSkyGradient) THEN w
                 ELSE callEach(w, drawBatch, t)
    IN  IF i >= Len(newClouds) THEN completeTask(w, t, 0)
        ELSE IF drawn.tasks[t].pending > 0 THEN [drawn EXCEPT !.tasks[t].pc = "draw"]
        ELSE initialAfterDraw(drawn, t)

initialAfterBatch(w, t) ==
    LET i == w.tasks[t].index IN
    IF i + SPAWN_BATCH_SIZE < Len(w.tasks[t].specs)
      THEN [w EXCEPT !.tasks[t].pc = "batchDelay", !.tasks[t].index = i + SPAWN_BATCH_SIZE]
      ELSE initialDraw([w EXCEPT !.tasks[t].index = 0], t)

\* One round of createInitialClouds' spawning loop.
initialBatch(w, t) ==
    LET specs == w.tasks[t].specs
        i == w.tasks[t].index
        batch == SubSeq(specs, i + 1, Min(i + SPAWN_BATCH_SIZE, Len(specs)))
        spawned == spawnEach(w, batch, 1, t)
    IN  IF spawned.tasks[t].pending > 0 THEN [spawned EXCEPT !.tasks[t].pc = "batch"]
        ELSE initialAfterBatch(spawned, t)

\* The values Math.random() and the worker's _simpleRandom return, in thousandths.
RandomDraws == {0}

createInitialClouds(w, parent) ==
    LET t == FreshTask(w.tasks)
        targetCloudCounts == calculateCloudCountsPerLayer(w.renderer)
        draw == CHOOSE d \in RandomDraws : TRUE
        allCloudSpecs ==
          FlattenLayers([k \in DOMAIN targetCloudCounts |->
                           planLayer(k, targetCloudCounts[k], draw, draw)],
                        0, Cardinality(DOMAIN targetCloudCounts))
        w1 == [w EXCEPT !.tasks = PutTask(AddPending(@, parent), t,
                                          [NewTask("initial", "batch", parent) EXCEPT
                                             !.specs = allCloudSpecs])]
    IN  initialBatch(w1, t)

\* updateCloudSettings after its clean-up loop.
settingsRebuild(w, t) ==
    LET cleared == [w.renderer EXCEPT !.cloudFragments = <<>>]
        layered == IF w.tasks[t].index # w.tasks[t].settings.depthLayers
                     THEN initializeDepthLayers(cleared) ELSE cleared
    IN  [w EXCEPT !.renderer = layered, !.tasks[t].pc = "settle"]

\* One round of updateCloudSettings' clean-up loop (key: the loop index,
\* index: the depth-layer count before the change).
settingsCleanup(w, t) ==
    LET list == w.renderer.cloudFragments
        i == w.tasks[t].key
        batch == Range(SubSeq(list, i + 1, Min(i + CLEANUP_BATCH_SIZE, Len(list))))
        cleaned ==
          [w EXCEPT
             !.heap = [id \in DOMAIN w.heap |->
                         IF id \in batch THEN destroy(w.heap[id]) ELSE w.heap[id]],
             !.renderer.depthContainers =
                [k \in DOMAIN @ |->
                   @[k] \ {id \in batch : w.heap[id].data.depthLayer = k}]]
    IN  IF i >= Len(list) THEN settingsRebuild(w, t)
        ELSE IF i + CLEANUP_BATCH_SIZE < Len(list)
          THEN [cleaned EXCEPT !.tasks[t].pc = "cleanupDelay",
                               !.tasks[t].key = i + CLEANUP_BATCH_SIZE]
        ELSE settingsRebuild(cleaned, t)

updateCloudSettings(w, settings) ==
    LET old == w.renderer.cloudSettings
        w1 == [w EXCEPT !.renderer.cloudSettings = settings]
        live == Range(w.renderer.cloudFragments)
    IN  IF /\ old.depthLayers = settings.depthLayers
           /\ old.cloudCount = settings.cloudCount
           /\ old.speed # settings.speed
          THEN [w1 EXCEPT !.heap =
                  [id \in DOMAIN w.heap |->
                     IF id \in live
                       THEN [w.heap[id] EXCEPT
                               !.data.speed = Mul(settings.speed,
                                                  w.heap[id].data.speedMultiplier)]
                       ELSE w.heap[id]]]
        ELSE IF old.depthLayers # settings.depthLayers \/ old.cloudCount # settings.cloudCount
          THEN LET t == FreshTask(w.tasks)
                   task == [NewTask("settings", "cleanup", 0) EXCEPT
                              !.settings = settings, !.index = old.depthLayers]
               IN  settingsCleanup(
                     [w1 EXCEPT !.renderer.isUpdatingSettings = TRUE,
                                !.tasks = PutTask(@, t, task)], t)
        ELSE w1

\* The promise of task t settles with result (0: null or nothing).
completeTask(w, t, result) ==
    LET p == w.tasks[t].parent
        w1 == [w EXCEPT !.tasks = DropTask(@, t)]
    IN  IF p = 0 THEN w1
        ELSE awaitDone(
               [w1 EXCEPT !.tasks[p].newClouds =
                            IF result = 0 \/ w.tasks[p].kind # "initial"
                              THEN @ ELSE Append(@, result)], p)

\* Task t resumes after the await (or the timer) it was suspended at.
continueTask(w, t) ==
    LET task == w.tasks[t]
        at == <<task.kind, task.pc>>
    IN  CASE at = <<"spawn", "shade">> -> completeTask(w, t, task.cloud)
          [] at = <<"check", "spawns">> -> cleanUp(w, t)
          [] at = <<"check", "replacements">> -> completeTask(w, t, 0)
          [] at = <<"update", "sun">> -> updateAfterSun(w, t)
          [] at = <<"update", "check">> -> updateFinish(w, t)
          [] at = <<"sun", "batch">> -> sunAfterBatch(w, t)
          [] at = <<"sun", "delay">> -> sunBatch(w, t)
          [] at = <<"initial", "batch">> -> initialAfterBatch(w, t)
          [] at = <<"initial", "batchDelay">> -> initialBatch(w, t)
          [] at = <<"initial", "draw">> -> initialAfterDraw(w, t)
          [] at = <<"initial", "drawDelay">> -> initialDraw(w, t)
          [] at = <<"settings", "cleanupDelay">> -> settingsCleanup(w, t)
          [] at = <<"settings", "settle">> ->
               createInitialClouds([w EXCEPT !.tasks[t].pc = "create"], t)
          [] at = <<"settings", "create">> ->
               [w EXCEPT !.renderer.isUpdatingSettings = FALSE,
                         !.tasks = DropTask(@, t)]
          [] at = <<"initialize", "sun">> ->
               createInitialClouds([w EXCEPT !.tasks[t].pc = "clouds"], t)
          [] at = <<"initialize", "clouds">> ->
               [w EXCEPT !.renderer.started = TRUE, !.tasks = DropTask(@, t)]
          [] OTHER -> w


(***************************************************************************)
(* The renderer's specifications.  The initial state is the one the        *)
(* constructor leaves: depth layers initialised, initialize() suspended at *)
(* its first sun update.  The ticker and the sidebar start producing       *)
(* events when initialize() has finished.                                  *)
(***************************************************************************)
MaxTicks == 2

MaxSettings == 1

MaxFailures == 1

MaxTimeChanges == 2

\* The ticks, settings changes and worker failures of one run, in all.
MaxEvents == 3

\* The frames' worth of movement one modelled update applies.
DeltaTime == 600

\* The population is scaled down: the program starts with 20 clouds in 10
\* layers and lets the sidebar choose 5 to 30 layers; the model starts with
\* one cloud per layer in 3 layers and lets the sidebar choose 2 or 3.
InitialSettings == [cloudCount |-> 1, speed |-> 1000, depthLayers |-> 3]

SettingsChoices == [cloudCount : {1}, speed : {1000, 2000}, depthLayers : {2, 3}]

InitRendererWith(b) ==
    /\ renderer =
         initializeDepthLayers(
           [cloudFragments |-> <<>>, depthContainers |-> <<>>,
            currentDepthLayers |-> <<>>, cloudSettings |-> InitialSettings,
            currentSkyGradient |-> NoGradient, customTime |-> "none",
            isUpdatingSettings |-> FALSE, started |-> FALSE])
    /\ tasks = <<[NewTask("initialize", "sun", 0) EXCEPT !.pending = 1],
                 [NewTask("sun", "gradient", 1) EXCEPT !.time = Now]>>
    /\ gradientQueue = <<2>>
    /\ heap = <<>>
    /\ workerQueue = <<>>
    /\ lastOp = NoLog
    /\ budget = b
    /\ request = NoRequest
    /\ response = NoResponse

\* The environment may still produce a tick, a settings change or a failure.
EventsLeft ==
    (MaxTicks - budget.ticks) + (MaxSettings - budget.settings)
      + (MaxFailures - budget.failures) < MaxEvents

\* The world w is the next state, reached by handler op.
Apply(w, op) ==
    /\ heap' = w.heap
    /\ workerQueue' = w.workerQueue
    /\ renderer' = w.renderer
    /\ tasks' = w.tasks
    /\ gradientQueue' = w.gradientQueue
    /\ lastOp' = [w.log EXCEPT !.op = op]

\* The ticker calls update(deltaTime); the spawn check may or may not be due.
Tick ==
    /\ renderer.started
    /\ budget.ticks > 0
    /\ EventsLeft
    /\ \E checkDue \in BOOLEAN : Apply(update(World, FALSE, checkDue, DeltaTime), "tick")
    /\ budget' = [budget EXCEPT !.ticks = @ - 1]
    /\ UNCHANGED pureVars

\* The sidebar reports changed cloud settings.
SidebarSettings ==
    /\ renderer.started
    /\ budget.settings > 0
    /\ EventsLeft
    /\ \E settings \in SettingsChoices :
         /\ settings # renderer.cloudSettings
         /\ Apply(updateCloudSettings(World, settings), "settings")
    /\ budget' = [budget EXCEPT !.settings = @ - 1]
    /\ UNCHANGED pureVars

\* The data worker answers its oldest call.
WorkerAnswers ==
    /\ workerQueue # <<>>
    /\ LET call == Head(workerQueue)
           w == [World EXCEPT !.workerQueue = Tail(@)]
       IN  IF call.kind = "generate"
             THEN \E layerDraw \in RandomDraws, xDraw \in RandomDraws :
                    LET layerKeys == DOMAIN call.depthLayers
                        k == (layerDraw * Cardinality(layerKeys)) \div SCALE
                    IN  Apply(spawnCloudCreated(
                                w, call.waiter,
                                generateFullCloudData(<<"ok">>,
                                                      FragmentData(call.depthLayers[k].depth),
                                                      call.skyGradient),
                                xDraw), "created")
             ELSE Apply(reshadeAnswered(w, call), "reshaded")
    /\ UNCHANGED <<budget, pureVars>>

\* The data worker fails its oldest call, a synthesis.
WorkerFails ==
    /\ workerQueue # <<>>
    /\ Head(workerQueue).kind = "generate"
    /\ budget.failures > 0
    /\ EventsLeft
    /\ Apply(spawnCloudFailed([World EXCEPT !.workerQueue = Tail(@)],
                              Head(workerQueue).waiter), "failed")
    /\ budget' = [budget EXCEPT !.failures = @ - 1]
    /\ UNCHANGED pureVars

\* The sky-gradient service answers the oldest sun update.
GradientAnswers ==
    /\ gradientQueue # <<>>
    /\ Apply(sunGradientReady([World EXCEPT !.gradientQueue = Tail(@)],
                              Head(gradientQueue)), "gradient")
    /\ UNCHANGED <<budget, pureVars>>

DelayPcs == {"delay", "batchDelay", "drawDelay", "cleanupDelay", "settle"}

\* A setTimeout a task waits for fires.
Timeout ==
    /\ \E t \in DOMAIN tasks :
         /\ tasks[t].pc \in DelayPcs
         /\ Apply(continueTask(World, t), "timeout")
    /\ UNCHANGED <<budget, pureVars>>

InitRenderer ==
    InitRendererWith([ticks |-> MaxTicks, settings |-> MaxSettings, times |-> 0,
                      failures |-> MaxFailures])

NextRenderer ==
    Tick \/ SidebarSettings \/ WorkerAnswers \/ WorkerFails \/ GradientAnswers \/ Timeout

SpecRenderer == InitRenderer /\ [][NextRenderer]_vars


(***************************************************************************)
(* Properties of the cloud population (SpecRenderer).                      *)
(***************************************************************************)
\* The live clouds that are past the clean-up line, and those of layer key k.
PastCleanupLine == {id \in Range(renderer.cloudFragments) :
                      heap[id].data.x < -(2 * RESPAWN_MARGIN)}

CountOfKey(calls, k) == Cardinality({i \in DOMAIN calls : calls[i].key = k})

\* C5: when a spawn check runs its clean-up step, every live fragment whose x
\* is below -2*RESPAWN_MARGIN is destroyed, is in no depth container and is
\* off the live list afterwards, and spawnCloud is called exactly once per
\* removed fragment, with that fragment's depth-layer key.
C5_CleanupRecycles ==
    [][lastOp'.cleanup.ran =>
         /\ \A id \in PastCleanupLine :
              /\ heap'[id].displayObject.destroyed
              /\ id \notin Range(renderer'.cloudFragments)
              /\ \A k \in DOMAIN renderer'.depthContainers :
                   id \notin renderer'.depthContainers[k]
         /\ \A k \in {heap[id].data.depthLayer : id \in PastCleanupLine} :
              CountOfKey(lastOp'.cleanup.replacements, k)
                = Cardinality({id \in PastCleanupLine : heap[id].data.depthLayer = k})
         /\ Len(lastOp'.cleanup.replacements) = Cardinality(PastCleanupLine)]_vars

C5_Witness ==
    /\ lastOp.cleanup.ran
    /\ Len(lastOp.cleanup.due) >= 1
    /\ Len(lastOp.cleanup.replacements) = Len(lastOp.cleanup.due)
    /\ heap[lastOp.cleanup.due[1]].displayObject.destroyed

\* C6: a spawn attempt that returns no fragment leaves the live list and the
\* depth containers as they were when the attempt ran.
C6_NullSpawnLeavesNoTrace ==
    lastOp.spawn.result = "null" =>
      /\ lastOp.spawn.listAfter = lastOp.spawn.listBefore
      /\ lastOp.spawn.containersAfter = lastOp.spawn.containersBefore


(***************************************************************************)
(* Lighting over the lifetime of the clouds.  The specification follows    *)
(* the fragments while they stay alive: the ticker's frames whose sun      *)
(* update is due (every SUN_CONFIG.UPDATE_INTERVAL), the time dial of the  *)
(* sidebar, the sky-gradient service and the data worker.  Movement is     *)
(* left out (deltaTime 0, no spawn check): updateSunPosition and           *)
(* updateSkyGradient read no position, and no cloud leaves the screen.     *)
(* With at most BATCH_SIZE live clouds no timer is ever awaited here.      *)
(***************************************************************************)
CustomTimes == {"afternoon", "sunset"}

\* The time dial's debounced onTimeChange(time): customTime is set and
\* updateSunPosition is called without being awaited.
SidebarTime ==
    /\ renderer.started
    /\ budget.times > 0
    /\ \E time \in CustomTimes :
         /\ time # renderer.customTime
         /\ Apply(updateSunPosition([World EXCEPT !.renderer.customTime = time], 0),
                  "time")
    /\ budget' = [budget EXCEPT !.times = @ - 1]
    /\ UNCHANGED pureVars

\* A frame whose periodic sun update is due, once the previous one is over.
RefreshTick ==
    /\ renderer.started
    /\ \A t \in DOMAIN tasks : tasks[t].kind # "update"
    /\ Apply(update(World, TRUE, FALSE, 0), "refresh")
    /\ UNCHANGED <<budget, pureVars>>

InitLighting ==
    InitRendererWith([ticks |-> 0, settings |-> 0, times |-> MaxTimeChanges,
                      failures |-> 0])

NextLighting == SidebarTime \/ RefreshTick \/ WorkerAnswers \/ GradientAnswers

\* The refreshes keep running and every call is answered: weak fairness of
\* the refresh and of the two services' answers.  An answer is enabled
\* exactly when its queue is not empty, and the fairness of the answers is
\* written with that condition in the place of ENABLED.
SpecLighting ==
    /\ InitLighting
    /\ [][NextLighting]_vars
    /\ WF_vars(RefreshTick)
    /\ ([]<>(workerQueue = <<>>) \/ []<><<WorkerAnswers>>_vars)
    /\ ([]<>(gradientQueue = <<>>) \/ []<><<GradientAnswers>>_vars)

\* The clouds of the lighting specification: one per initial depth layer.
LightingClouds == 1..InitialSettings.depthLayers

\* Fragment id is gone, or shows the colours of the current descriptor.
LitByCurrent(id) ==
    /\ id \in DOMAIN heap
    /\ \/ heap[id].displayObject.destroyed
       \/ /\ ~heap[id].isUpdatingSkyGradient
          /\ heap[id].hasBeenDrawn
          /\ SameValue(heap[id].skyGradient, renderer.currentSkyGradient)

MaxFrames == 5

\* A frame on which the spawn check is due.
FrameWithCheck ==
    /\ renderer.started
    /\ budget.ticks > 0
    /\ Apply(update(World, FALSE, TRUE, DeltaTime), "frame")
    /\ budget' = [budget EXCEPT !.ticks = @ - 1]
    /\ UNCHANGED pureVars

InitFrames ==
    InitRendererWith([ticks |-> MaxFrames, settings |-> 0, times |-> 0, failures |-> 0])

NextFrames == FrameWithCheck \/ WorkerAnswers \/ GradientAnswers

SpecFrames == InitFrames /\ [][NextFrames]_vars

\* The worker calls of the given kinds issued and not yet answered.
Outstanding(kinds) ==
    Cardinality({i \in DOMAIN workerQueue : workerQueue[i].kind \in kinds})

\* C11: at every moment at most SPAWN_BATCH_SIZE synthesis calls and at most
\* BATCH_SIZE re-shading calls of the renderer are issued and not yet answered.
C11_OutstandingCallsBounded ==
    /\ Outstanding({"generate"}) <= SPAWN_BATCH_SIZE
    /\ Outstanding({"colors", "shadows"}) <= BATCH_SIZE


(***************************************************************************)
(* Re-shading of synthesized pixels.  The pixel array of the request is    *)
(* what generateFullCloudData returned for descriptor synthesizedWith, and *)
(* the re-shading call is made with any descriptor.                        *)
(***************************************************************************)
InitSynthesis ==
    /\ \E kind \in {"colors", "shadows"}, n \in 0..MaxPixels, depth \in Depths,
          g0 \in GradientPool \cup {NoGradient}, g \in GradientPool \cup {NoGradient} :
         request =
           [kind |-> kind,
            pixelProps |->
              generateFullCloudData([i \in 1..n |-> "ok"], FragmentData(depth),
                                    g0).pixelProperties,
            skyGradient |-> g,
            fragmentData |-> FragmentData(depth),
            synthesizedWith |-> g0]
    /\ response = NoResponse
    /\ heap = <<>>
    /\ workerQueue = <<>>
    /\ lastOp = NoOp
    /\ RendererIdle

SpecSynthesis == InitSynthesis /\ [][NextWorker]_vars

\* C12: recalculatePixelColors on the pixels generateFullCloudData returned,
\* with a descriptor equal to the one given to the synthesis (or with none,
\* as at the synthesis), returns for every pixel the colour the synthesis stored.
C12_RecolourReproducesSynthesis ==
    (/\ response.state = "returned"
     /\ request.kind = "colors"
     /\ SameValue(request.skyGradient, request.synthesizedWith))
      => /\ Len(response.colors) = Len(request.pixelProps)
         /\ \A i \in DOMAIN request.pixelProps :
              response.colors[i] = request.pixelProps[i].color

C12_Witness ==
    /\ response.state = "returned"
    /\ request.kind = "colors"
    /\ ~IsNull(request.skyGradient)
    /\ isDaytimeOf(request.skyGradient)
    /\ request.fragmentData.depth > 0
    /\ SameValue(request.skyGradient, request.synthesizedWith)
    /\ Len(response.colors) = MaxPixels


(***************************************************************************)
(* The synthesis grid of generateFullCloudData.  Widths and heights are    *)
(* whole pixels, the pixel size and the pixel corners are exact fractions  *)
(* num/den with a positive denominator, densities, the boundary and the    *)
(* normalized coordinates are thousandths.  The noise-shaped density       *)
(* before the final clamp and the noise-shaped boundary before its clamp   *)
(* are inputs; one step runs the loop body for one cell of the grid.       *)
(***************************************************************************)
pixelSize == 10

MAX_GRID_SIZE == 80

densityThreshold == 100

Frac(n, d) == [num |-> n, den |-> d]

FracLeq(a, b) == a.num * b.den <= b.num * a.den

FracAdd(a, b) == Frac(a.num * b.den + b.num * a.den, a.den * b.den)

CeilDiv(a, b) == (a + b - 1) \div b

\* actualGridWidth and actualGridHeight: the natural grid, capped.
actualGridSize(extent) == Min(CeilDiv(extent, pixelSize), MAX_GRID_SIZE)

adjustedPixelSizeUnadjusted(width, height) == Frac(pixelSize, 1)

\* Math.max(width / actualGridWidth, height / actualGridHeight)
adjustedPixelSize(width, height) ==
    LET agw == actualGridSize(width)
        agh == actualGridSize(height)
    IN  IF width * agh >= height * agw THEN Frac(width, agw) ELSE Frac(height, agh)

\* (i / n) * 2 - 1
normalized(i, n) == (2 * SCALE * i) \div n - SCALE

calculateCloudDensityUnclamped(baseDensity, fragmentData) ==
    Mul(baseDensity, fragmentData.density)

\* The last line of _calculateCloudDensity, on the noise-shaped baseDensity.
calculateCloudDensity(baseDensity, fragmentData) ==
    Max(0, Min(SCALE, Mul(baseDensity, fragmentData.density)))

\* The last line of _calculateOrganicBoundary, on the noise-shaped boundary.
calculateOrganicBoundary(boundary) == Max(400, Min(1600, boundary))

\* (i - n / 2) * adjustedPixelSize + extent / 2
pixelCorner(i, n, size, extent) ==
    Frac((2 * i - n) * size.num + extent * size.den, 2 * size.den)

\* The loop body for cell (x, y): the pixels it pushes, none or one.
generateCell(width, height, fragmentData, x, y, baseDensity, boundary) ==
    LET agw == actualGridSize(width)
        agh == actualGridSize(height)
        size == adjustedPixelSize(width, height)
        nx == normalized(x, agw)
        ny == normalized(y, agh)
        densityValue == calculateCloudDensity(baseDensity, fragmentData)
        organicBoundary == calculateOrganicBoundary(boundary)
    IN  IF /\ densityValue > densityThreshold
           /\ nx * nx + ny * ny <= organicBoundary * organicBoundary
        THEN << [nx |-> nx, ny |-> ny, density |-> densityValue,
                 pixelX |-> pixelCorner(x, agw, size, width),
                 pixelY |-> pixelCorner(y, agh, size, height),
                 pixelSize |-> size] >>
        ELSE << >>

\* Widths and heights the size ranges of one archetype times one layer scale
\* (0.4 to 1.1) produce: wispy 400-800 x 100-200, scattered 350-700 x 150-280,
\* puffy 500-1200 x 200-450, dense 600-1400 x 250-500.
FragmentSizes ==
    {<<160, 40>>, <<160, 55>>, <<320, 80>>, <<400, 105>>, <<800, 200>>,
     <<880, 110>>, <<140, 60>>, <<700, 280>>, <<1000, 250>>, <<1200, 450>>,
     <<795, 250>>, <<801, 275>>, <<1435, 462>>, <<1540, 550>>}

FragmentDensities == {400, 1000}

BaseDensities == {-200, 0, 100, 105, 250, 600, 1500}

BoundaryDraws == {300, 1000, 1700}

CellSamples(n) == {0, n \div 5, n \div 2, n - 1}

InitGrid ==
    /\ \E size \in FragmentSizes, density \in FragmentDensities :
         request = [kind |-> "generate", width |-> size[1], height |-> size[2],
                    fragmentData |-> [density |-> density]]
    /\ response = NoResponse
    /\ heap = <<>>
    /\ workerQueue = <<>>
    /\ lastOp = NoOp
    /\ RendererIdle

SynthesizeCell ==
    /\ request.kind = "generate"
    /\ response.state = "none"
    /\ LET agw == actualGridSize(request.width)
           agh == actualGridSize(request.height)
       IN  \E x \in CellSamples(agw), y \in CellSamples(agh),
              baseDensity \in BaseDensities, boundary \in BoundaryDraws :
             response' =
               [state |-> "returned",
                gridWidth |-> agw,
                gridHeight |-> agh,
                adjustedPixelSize |-> adjustedPixelSize(request.width, request.height),
                densityValue |-> calculateCloudDensity(baseDensity, request.fragmentData),
                pixelProperties |->
                  generateCell(request.width, request.height, request.fragmentData,
                               x, y, baseDensity, boundary)]
    /\ UNCHANGED <<request, heap, workerQueue, lastOp, renderer, tasks,
                   gradientQueue, budget>>

NextGrid == SynthesizeCell

SpecGrid == InitGrid /\ [][NextGrid]_vars

\* C13: for every width and height the grid has at most MAX_GRID_SIZE cells
\* in each dimension, and the grid times the pixel size covers the whole
\* width and the whole height, so that capping the grid cuts nothing off.
C13_GridCappedAndSpanning ==
    response.state = "returned" =>
      LET size == response.adjustedPixelSize
      IN  /\ response.gridWidth <= MAX_GRID_SIZE
          /\ response.gridHeight <= MAX_GRID_SIZE
          /\ FracLeq(Frac(request.width, 1),
                     Frac(response.gridWidth * size.num, size.den))
          /\ FracLeq(Frac(request.height, 1),
                     Frac(response.gridHeight * size.num, size.den))

C13_Witness ==
    /\ response.state = "returned"
    /\ CeilDiv(request.width, pixelSize) > MAX_GRID_SIZE
    /\ response.gridWidth = MAX_GRID_SIZE
    /\ ~FracLeq(response.adjustedPixelSize, Frac(pixelSize, 1))

\* C16: every pixel rectangle the synthesis emits lies inside the fragment's
\* bounding box: 0 <= pixelX, pixelX + pixelSize <= width, 0 <= pixelY and
\* pixelY + pixelSize <= height.
C16_PixelsInsideBox ==
    response.state = "returned" =>
      \A i \in DOMAIN response.pixelProperties :
        LET p == response.pixelProperties[i]
        IN  /\ FracLeq(Frac(0, 1), p.pixelX)
            /\ FracLeq(FracAdd(p.pixelX, p.pixelSize), Frac(request.width, 1))
            /\ FracLeq(Frac(0, 1), p.pixelY)
            /\ FracLeq(FracAdd(p.pixelY, p.pixelSize), Frac(request.height, 1))

\* C17: the density computed for a cell lies in [0, 1], every emitted pixel
\* has a density above the discard threshold and at most 1, and a cell whose
\* density is at or below the threshold emits no pixel.
C17_DensityInRange ==
    response.state = "returned" =>
      /\ response.densityValue \in 0..SCALE
      /\ \A i \in DOMAIN response.pixelProperties :
           /\ response.pixelProperties[i].density > densityThreshold
           /\ response.pixelProperties[i].density <= SCALE
      /\ response.densityValue <= densityThreshold => response.pixelProperties = << >>

C17_Witness ==
    /\ response.state = "returned"
    /\ response.pixelProperties # << >>
    /\ response.pixelProperties[1].density = SCALE


(***************************************************************************)
(* The sky-gradient worker with phase transitions: generateSkyGradient on  *)
(* a sun position (the current period with its start and end time) and the *)
(* current time.  Colour channels, positions, directions and progress are  *)
(* thousandths.                                                            *)
(***************************************************************************)
TimeOfDayNames ==
    {"night_before_dawn", "dawn", "sunrise", "morning", "solar_noon_transition",
     "solar_noon", "afternoon", "evening_transition", "sunset", "dusk",
     "night_after_dusk", "deep_night"}

getGradientColorsForTimeOfDay(timeOfDay) ==
    CASE timeOfDay = "deep_night" ->
           <<<<10, 10, 50>>, <<20, 20, 80>>, <<30, 30, 100>>>>
      [] timeOfDay = "night_before_dawn" ->
           <<<<20, 20, 80>>, <<30, 30, 120>>, <<50, 50, 150>>>>
      [] timeOfDay = "dawn" ->
           <<<<150, 100, 250>>, <<300, 150, 350>>, <<500, 250, 400>>, <<700, 350, 350>>>>
      [] timeOfDay = "sunrise" ->
           <<<<800, 400, 300>>, <<950, 600, 200>>, <<1000, 800, 300>>, <<1000, 900, 500>>>>
      [] timeOfDay = "morning" ->
           <<<<900, 950, 1000>>, <<600, 750, 980>>, <<500, 700, 950>>, <<400, 600, 900>>>>
      [] timeOfDay \in {"solar_noon_transition", "solar_noon"} ->
           <<<<950, 980, 1000>>, <<600, 750, 980>>, <<500, 700, 950>>, <<350, 550, 850>>>>
      [] timeOfDay = "afternoon" ->
           <<<<900, 950, 1000>>, <<600, 750, 980>>, <<500, 700, 950>>, <<400, 600, 900>>>>
      [] timeOfDay = "evening_transition" ->
           <<<<500, 650, 900>>, <<650, 750, 850>>, <<800, 820, 850>>, <<900, 880, 850>>>>
      [] timeOfDay = "sunset" ->
           <<<<900, 600, 350>>, <<700, 450, 500>>, <<1000, 750, 250>>, <<800, 500, 600>>>>
      [] timeOfDay = "dusk" ->
           <<<<450, 300, 550>>, <<250, 200, 450>>, <<150, 100, 300>>>>
      [] timeOfDay = "night_after_dusk" ->
           <<<<80, 50, 200>>, <<120, 80, 250>>, <<50, 30, 120>>>>
      [] OTHER ->
           <<<<500, 700, 1000>>, <<700, 850, 1000>>, <<850, 920, 1000>>>>

getRadialGradientColorsForTimeOfDay(timeOfDay) ==
    CASE timeOfDay = "dawn" ->
           <<<<800, 400, 300>>, <<600, 300, 400>>, <<300, 150, 350>>, <<150, 100, 250>>>>
      [] timeOfDay = "sunrise" ->
           <<<<1000, 800, 300>>, <<950, 600, 200>>, <<700, 350, 350>>, <<500, 250, 400>>>>
      [] timeOfDay = "morning" ->
           <<<<900, 950, 1000>>, <<600, 750, 980>>, <<500, 700, 950>>, <<400, 600, 900>>>>
      [] timeOfDay \in {"solar_noon_transition", "solar_noon"} ->
           <<<<950, 980, 1000>>, <<600, 750, 980>>, <<500, 700, 950>>, <<350, 550, 850>>>>
      [] timeOfDay = "afternoon" ->
           <<<<900, 950, 1000>>, <<600, 750, 980>>, <<500, 700, 950>>, <<400, 600, 900>>>>
      [] timeOfDay = "evening_transition" ->
           <<<<1000, 900, 700>>, <<900, 800, 800>>, <<800, 820, 850>>, <<500, 650, 900>>>>
      [] timeOfDay = "sunset" ->
           <<<<1000, 750, 250>>, <<900, 600, 350>>, <<700, 450, 500>>, <<450, 300, 550>>>>
      [] OTHER ->
           <<<<1000, 1000, 950>>, <<800, 900, 1000>>, <<650, 800, 980>>, <<500, 700, 950>>>>

getSunColorForTimeOfDay(timeOfDay) ==
    CASE timeOfDay \in {"deep_night", "night_before_dawn", "night_after_dusk"} ->
           <<100, 100, 200>>
      [] timeOfDay \in {"dawn", "dusk"} -> <<800, 500, 300>>
      [] timeOfDay \in {"sunrise", "sunset"} -> <<1000, 700, 200>>
      [] OTHER -> <<1000, 1000, 900>>

\* sunX and sunY of calculateSunViewportPosition.
sunViewportPositionOf(timeOfDay) ==
    CASE timeOfDay \in {"dawn", "sunrise", "morning"} -> [x |-> 1500, y |-> 300]
      [] timeOfDay \in {"solar_noon_transition", "solar_noon"} -> [x |-> 500, y |-> -500]
      [] timeOfDay \in {"afternoon", "evening_transition", "sunset"} ->
           [x |-> -500, y |-> 300]
      [] OTHER -> [x |-> 500, y |-> 2000]

\* t < 0.5 ? 4 * t * t * t : 1 - (-2 * t + 2) ** 3 / 2
easeInOutCubic(t) ==
    IF t < 500
      THEN (4 * t * t * t) \div (SCALE * SCALE)
      ELSE SCALE - ((2 * SCALE - 2 * t) * (2 * SCALE - 2 * t) * (2 * SCALE - 2 * t))
                     \div (2 * SCALE * SCALE)

interpolateColor(color1, color2, progress) ==
    [i \in 1..3 |-> color1[i] + Mul(color2[i] - color1[i], progress)]

interpolateGradientColors(colors1, colors2, progress) ==
    [i \in 1..Max(Len(colors1), Len(colors2)) |->
       interpolateColor(colors1[Min(i, Len(colors1))], colors2[Min(i, Len(colors2))],
                        progress)]

timeOfDayChronologicalOrder ==
    <<"deep_night", "night_before_dawn", "dawn", "sunrise", "morning",
      "solar_noon_transition", "solar_noon", "afternoon", "evening_transition",
      "sunset", "dusk", "night_after_dusk", "deep_night">>

calculateTransitionInfo(sunPosition, now) ==
    LET currentPeriod == sunPosition.currentTimePeriod
        order == timeOfDayChronologicalOrder
        found == {i \in DOMAIN order : order[i] = currentPeriod.name}
        currentIndex == IF found = {} THEN 1
                        ELSE CHOOSE i \in found : \A j \in found : i <= j
        periodDuration == currentPeriod.endTime - currentPeriod.startTime
        periodProgress ==
          IF periodDuration > 0
            THEN Max(0, Min(SCALE, ((now - currentPeriod.startTime) * SCALE)
                                     \div periodDuration))
            ELSE 0
        transitionThreshold == 750
    IN  [isTransitioning |-> periodProgress >= transitionThreshold,
         nextTimeOfDayName |-> order[(currentIndex % Len(order)) + 1],
         periodProgress |-> periodProgress,
         progress |->
           IF periodProgress >= transitionThreshold
             THEN easeInOutCubic(
                    Min(SCALE, Max(0, ((periodProgress - transitionThreshold) * SCALE)
                                        \div (SCALE - transitionThreshold))))
             ELSE 0]

gradientColorsOf(timeOfDay) ==
    IF shouldUseRadialGradient(timeOfDay)
      THEN getRadialGradientColorsForTimeOfDay(timeOfDay)
      ELSE getGradientColorsForTimeOfDay(timeOfDay)

NoCenter == [x |-> 0, y |-> 0]

\* The descriptor generateSkyGradient returns outside a transition.
unmixedSkyGradient(timeOfDay) ==
    LET c == getCloudColorsForTimeOfDay(timeOfDay)
        useRadialGradient == shouldUseRadialGradient(timeOfDay)
    IN  [gradientColors |-> gradientColorsOf(timeOfDay),
         sunColor |-> getSunColorForTimeOfDay(timeOfDay),
         cloudBaseColor |-> c.cloudBaseColor,
         cloudHighlightColor |-> c.cloudHighlightColor,
         cloudShadowColor |-> c.cloudShadowColor,
         sunViewportPosition |-> sunViewportPositionOf(timeOfDay),
         lightDirection |-> calculateSunViewportPosition(timeOfDay),
         gradientType |-> IF useRadialGradient THEN "radial" ELSE "linear",
         radialGradientCenter |->
           IF useRadialGradient THEN sunViewportPositionOf(timeOfDay) ELSE NoCenter,
         radialGradientRadius |-> IF useRadialGradient THEN 2500 ELSE 0]

generateSkyGradientAt(sunPosition, currentTimeEpochMs) ==
    LET currentPeriodName == sunPosition.currentTimePeriod.name
        transitionInfo == calculateTransitionInfo(sunPosition, currentTimeEpochMs)
        next == transitionInfo.nextTimeOfDayName
        progress == transitionInfo.progress
        current == unmixedSkyGradient(currentPeriodName)
        following == unmixedSkyGradient(next)
    IN  IF transitionInfo.isTransitioning /\ next # currentPeriodName
          THEN [current EXCEPT
                  !.gradientColors =
                     interpolateGradientColors(@, following.gradientColors, progress),
                  !.sunColor = interpolateColor(@, following.sunColor, progress),
                  !.cloudBaseColor =
                     interpolateColor(@, following.cloudBaseColor, progress),
                  !.cloudHighlightColor =
                     interpolateColor(@, following.cloudHighlightColor, progress),
                  !.cloudShadowColor =
                     interpolateColor(@, following.cloudShadowColor, progress),
                  !.sunViewportPosition =
                     [x |-> @.x + Mul(following.sunViewportPosition.x - @.x, progress),
                      y |-> @.y + Mul(following.sunViewportPosition.y - @.y, progress)],
                  !.lightDirection =
                     [x |-> @.x + Mul(following.lightDirection.x - @.x, progress),
                      y |-> @.y + Mul(following.lightDirection.y - @.y, progress)]]
          ELSE current

\* A period of 400 ms and an empty one, and times before, inside and after.
TimePeriods ==
    {[startTime |-> 1000, endTime |-> 1400], [startTime |-> 1000, endTime |-> 1000]}

CurrentTimes == {950, 1000, 1200, 1299, 1300, 1320, 1350, 1380, 1400, 1450}

InitSky ==
    /\ \E name \in TimeOfDayNames, period \in TimePeriods, now \in CurrentTimes :
         request =
           [kind |-> "sky",
            sunPosition |->
              [currentTimePeriod |->
                 [name |-> name, startTime |-> period.startTime,
                  endTime |-> period.endTime]],
            currentTimeEpochMs |-> now]
    /\ response = NoResponse
    /\ heap = <<>>
    /\ workerQueue = <<>>
    /\ lastOp = NoOp
    /\ RendererIdle

SkyWorkerAnswers ==
    /\ request.kind = "sky"
    /\ response.state = "none"
    /\ response' =
         [state |-> "returned",
          skyGradient |->
            generateSkyGradientAt(request.sunPosition, request.currentTimeEpochMs)]
    /\ UNCHANGED <<request, heap, workerQueue, lastOp, renderer, tasks,
                   gradientQueue, budget>>

NextSky == SkyWorkerAnswers

SpecSky == InitSky /\ [][NextSky]_vars

Palette(g) ==
    <<g.gradientColors, g.sunColor, g.cloudBaseColor, g.cloudHighlightColor,
      g.cloudShadowColor>>

\* C14: at intra-phase progress exactly 0.75 the descriptor is the current
\* phase's unmixed descriptor, at progress 1 its palette is the next phase's
\* unmixed palette, and below 0.75 the descriptor is unmixed.
C14_TransitionEndpoints ==
    response.state = "returned" =>
      LET info == calculateTransitionInfo(request.sunPosition, request.currentTimeEpochMs)
          name == request.sunPosition.currentTimePeriod.name
      IN  /\ info.periodProgress <= 750 =>
               response.skyGradient = unmixedSkyGradient(name)
          /\ info.periodProgress = SCALE =>
               Palette(response.skyGradient)
                 = Palette(unmixedSkyGradient(info.nextTimeOfDayName))

\* The squared length of a direction in thousandths is within half a percent of 1.
IsUnit(v) ==
    LET squared == v.x * v.x + v.y * v.y
    IN  /\ squared >= SCALE * SCALE - 5 * SCALE
        /\ squared <= SCALE * SCALE + 5 * SCALE

\* C15: in every descriptor generateSkyGradient returns, also during a phase
\* transition, lightDirection has length 1, or is the zero vector when the
\* sun position is the viewport centre (0.5, 0.5).
C15_LightDirectionIsUnit ==
    response.state = "returned" =>
      \/ IsUnit(response.skyGradient.lightDirection)
      \/ /\ response.skyGradient.lightDirection = [x |-> 0, y |-> 0]
         /\ response.skyGradient.sunViewportPosition = [x |-> 500, y |-> 500]


(***************************************************************************)
(* Depth-layer partitioning as a function of the layer count.  The sidebar *)
(* offers 5 to 30 layers and the worker's default is 30; a single layer    *)
(* has no pair of layers to compare.                                       *)
(***************************************************************************)
MaxLayerCount == 60

InitLayers ==
    /\ \E numLayers \in 2..MaxLayerCount :
         request = [kind |-> "layers", numLayers |-> numLayers]
    /\ response = NoResponse
    /\ heap = <<>>
    /\ workerQueue = <<>>
    /\ lastOp = NoOp
    /\ RendererIdle

GenerateLayers ==
    /\ request.kind = "layers"
    /\ response.state = "none"
    /\ response' = [state |-> "returned",
                    layers |-> generateDepthLayers(request.numLayers)]
    /\ UNCHANGED <<request, heap, workerQueue, lastOp, renderer, tasks,
                   gradientQueue, budget>>

NextLayers == GenerateLayers

SpecLayers == InitLayers /\ [][NextLayers]_vars

\* C18: over the generated layers ordered by depth from 0 to 1 the midpoint
\* of the scale range strictly decreases and the speed multiplier strictly
\* increases, for every layer count.
C18_ScaleFallsSpeedRises ==
    response.state = "returned" =>
      \A i, j \in DOMAIN response.layers :
        i < j =>
          LET a == response.layers[i]
              b == response.layers[j]
          IN  /\ a.depth < b.depth
              /\ a.scaleRange.min + a.scaleRange.max > b.scaleRange.min + b.scaleRange.max
              /\ a.speedMultiplier < b.speedMultiplier

C18_Witness ==
    /\ response.state = "returned"
    /\ request.numLayers = 30
    /\ response.layers[0].depth = 0
    /\ response.layers[29].depth = SCALE
    /\ response.layers[0].scaleRange.min > response.layers[29].scaleRange.max


(***************************************************************************)
(* PerlinNoise.  An instance is a record in heap with its seed and its two *)
(* tables; a table is a tuple, so that entry k of the program is entry     *)
(* k + 1 here.  Coordinates and noise values are thousandths.              *)
(***************************************************************************)
\* (random * 9301 + 49297) % 233280, the product split to stay within 32 bits.
lcg(random) ==
    (((random * 9000) % 233280) + ((random * 301) % 233280) + 49297) % 233280

\* The loop of generatePermutation for i from high down to low, on the table
\* and the generator state.  The range is halved and the generator state is
\* looked at first (it is never negative) to keep the evaluation flat.
RECURSIVE shuffle(_, _, _)
shuffle(state, high, low) ==
    IF state.random < 0 THEN state
    ELSE IF high = low
      THEN LET next == lcg(state.random)
               j == (next * (high + 1)) \div 233280
           IN  [perm |-> [state.perm EXCEPT ![high + 1] = state.perm[j + 1],
                                            ![j + 1] = state.perm[high + 1]],
                random |-> next]
      ELSE LET middle == (high + low + 1) \div 2
           IN  shuffle(shuffle(state, high, middle), middle - 1, low)

\* Array.from({ length: 256 }, (_, i) => i)
Identity256 == SubSeq([i \in 1..256 |-> i - 1], 1, 256)

\* A table that depends on how many instances exist, not on the seed alone.
generatePermutationPerInstance(seed) ==
    shuffle([perm |-> Identity256, random |-> seed + Len(heap)], 255, 1).perm

generatePermutation(seed) ==
    shuffle([perm |-> Identity256, random |-> seed], 255, 1).perm

newPerlinNoise(seed) ==
    LET permutation == generatePermutation(seed)
    IN  [seed |-> seed,
         permutation |-> permutation,
         p |-> permutation \o permutation]

fade(t) == Mul(Mul(Mul(t, t), t), Mul(t, 6 * t - 15 * SCALE) + 10 * SCALE)

lerp(a, b, t) == a + Mul(t, b - a)

grad(hash, x, y) ==
    LET h == hash % 16
        u == IF h < 8 THEN x ELSE y
        v == IF h < 4 THEN y ELSE IF h = 12 \/ h = 14 THEN x ELSE 0
    IN  (IF (h % 2) = 0 THEN u ELSE -u) + (IF ((h \div 2) % 2) = 0 THEN v ELSE -v)

noise(this, x, y) ==
    LET X == (x \div SCALE) % 256
        Y == (y \div SCALE) % 256
        xFrac == x - (x \div SCALE) * SCALE
        yFrac == y - (y \div SCALE) * SCALE
        u == fade(xFrac)
        v == fade(yFrac)
        A == this.p[X + 1] + Y
        AA == this.p[A + 1]
        AB == this.p[A + 2]
        B == this.p[X + 2] + Y
        BA == this.p[B + 1]
        BB == this.p[B + 2]
    IN  lerp(lerp(grad(this.p[AA + 1], xFrac, yFrac),
                  grad(this.p[BA + 1], xFrac - SCALE, yFrac), u),
             lerp(grad(this.p[AB + 1], xFrac, yFrac - SCALE),
                  grad(this.p[BB + 1], xFrac - SCALE, yFrac - SCALE), u),
             v)

MaxInstances == 2

Seeds == {0, 7, 1234, 9999}

NoisePoints == {<<0, 0>>, <<500, 250>>, <<1250, 3700>>, <<-300, 255900>>}

InitNoise ==
    /\ request = [kind |-> "noise"]
    /\ response = NoResponse
    /\ heap = <<>>
    /\ workerQueue = <<>>
    /\ lastOp = NoOp
    /\ RendererIdle

ConstructNoise ==
    /\ request.kind = "noise"
    /\ Len(heap) < MaxInstances
    /\ \E seed \in Seeds : heap' = Append(heap, newPerlinNoise(seed))
    /\ UNCHANGED <<request, response, workerQueue, lastOp, renderer, tasks,
                   gradientQueue, budget>>

\* noise reads this.p and assigns no field.
CallNoise ==
    /\ request.kind = "noise"
    /\ \E k \in DOMAIN heap, point \in NoisePoints :
         response' = [state |-> "returned", instance |-> k, seed |-> heap[k].seed,
                      x |-> point[1], y |-> point[2],
                      value |-> noise(heap[k], point[1], point[2])]
    /\ UNCHANGED <<request, heap, workerQueue, lastOp, renderer, tasks,
                   gradientQueue, budget>>

NextNoise == ConstructNoise \/ CallNoise

SpecNoise == InitNoise /\ [][NextNoise]_vars

ChannelsOf(color) == <<color \div 65536, (color \div 256) % 256, color % 256>>

\* The cell the i-th returned colour was computed from.
ShadedCell(i) ==
    IF request.kind = "colors" THEN request.pixelProps[i]
    ELSE response.updatedPixelProps[i]

ShownChannel(c, brightness) ==
    Channel255(Min(SCALE, Mul(c, 850 + Mul(brightness, 150))))

ShownBase(cell, g) ==
    LET adjBase == IF isDaytimeOf(g)
                     THEN [k \in 1..3 |->
                             Mul(g.cloudBaseColor[k], SCALE - Mul(cell.depth, 400))]
                     ELSE g.cloudBaseColor
    IN  [k \in 1..3 |-> ShownChannel(adjBase[k], cell.brightness)]

ShownHighlight(cell, g) ==
    [k \in 1..3 |-> ShownChannel(g.cloudHighlightColor[k], cell.brightness)]

ShownShadow(cell, g) ==
    [k \in 1..3 |-> ShownChannel(g.cloudShadowColor[k], cell.brightness)]

AppliedShadowFactor(cell, g) ==
    IF isDaytimeOf(g) THEN Mul(cell.shadowFactor, 800 + Mul(cell.depth, 200))
    ELSE cell.shadowFactor

IsBlendOf(color, from, to) ==
    \A k \in 1..3 :
      /\ Min(from[k], to[k]) <= ChannelsOf(color)[k]
      /\ ChannelsOf(color)[k] <= Max(from[k], to[k])

EdgeCellBlend(color, cell, g) ==
    IsBlendOf(color, ShownBase(cell, g), ShownHighlight(cell, g))

InteriorCellBlend(color, cell, g) ==
    IF AppliedShadowFactor(cell, g) > 700
      THEN IsBlendOf(color, ShownBase(cell, g), ShownHighlight(cell, g))
      ELSE IsBlendOf(color, ShownShadow(cell, g), ShownBase(cell, g))

\* C20: with a lighting descriptor present, the colour returned for an edge
\* cell is a blend of the base colour toward the highlight colour (every
\* channel lies between the two as shown at the cell's brightness), and the
\* colour returned for an interior cell is the two-segment blend: between
\* shadow and base colour for a shadow factor up to 0.7, between base and
\* highlight colour above 0.7 (the shadow factor being the one the blend is
\* made with, which in daytime is reduced for near clouds).
C20_EdgeCellsBlendTowardHighlight ==
    (response.state = "returned" /\ ~IsNull(request.skyGradient))
      => \A i \in DOMAIN response.colors :
           IF ShadedCell(i).isEdge
             THEN EdgeCellBlend(response.colors[i], ShadedCell(i), request.skyGradient)
             ELSE InteriorCellBlend(response.colors[i], ShadedCell(i),
                                    request.skyGradient)


(***************************************************************************)
(* A population larger than one clean-up batch.  The program starts with   *)
(* 126 clouds (cloudCount 20 in 10 layers), so updateCloudSettings always  *)
(* needs several clean-up batches of CLEANUP_BATCH_SIZE with a timer       *)
(* between them.  The specification starts from the constructor with       *)
(* CrowdSettings (24 clouds in 5 layers), lets initialize() run, and then  *)
(* lets the sidebar change the settings and the ticker fire frames.        *)
(***************************************************************************)
CrowdSettings == [cloudCount |-> 8, speed |-> 1000, depthLayers |-> 5]

CrowdChoices == [cloudCount : {8, 9}, speed : {1000}, depthLayers : {5}]

MaxCrowdTicks == 1

InitCrowd ==
    /\ renderer =
         initializeDepthLayers(
           [cloudFragments |-> <<>>, depthContainers |-> <<>>,
            currentDepthLayers |-> <<>>, cloudSettings |-> CrowdSettings,
            currentSkyGradient |-> NoGradient, customTime |-> "none",
            isUpdatingSettings |-> FALSE, started |-> FALSE])
    /\ tasks = <<[NewTask("initialize", "sun", 0) EXCEPT !.pending = 1],
                 [NewTask("sun", "gradient", 1) EXCEPT !.time = Now]>>
    /\ gradientQueue = <<2>>
    /\ heap = <<>>
    /\ workerQueue = <<>>
    /\ lastOp = NoLog
    /\ budget = [ticks |-> MaxCrowdTicks, settings |-> 1, times |-> 0, failures |-> 0]
    /\ request = NoRequest
    /\ response = NoResponse

\* The ticker calls update(deltaTime) with no spawn check due.
CrowdTick ==
    /\ renderer.started
    /\ budget.ticks > 0
    /\ Apply(update(World, FALSE, FALSE, DeltaTime), "tick")
    /\ budget' = [budget EXCEPT !.ticks = @ - 1]
    /\ UNCHANGED pureVars

\* The sidebar reports a changed cloud count.
CrowdSidebarSettings ==
    /\ renderer.started
    /\ budget.settings > 0
    /\ \E settings \in CrowdChoices :
         /\ settings # renderer.cloudSettings
         /\ Apply(updateCloudSettings(World, settings), "settings")
    /\ budget' = [budget EXCEPT !.settings = @ - 1]
    /\ UNCHANGED pureVars

NextCrowd ==
    CrowdTick \/ CrowdSidebarSettings \/ WorkerAnswers \/ GradientAnswers \/ Timeout

SpecCrowd == InitCrowd /\ [][NextCrowd]_vars

\* C21: the per-frame position update is never applied to a destroyed
\* fragment: no step moves (changes the x of) a fragment that was destroyed
\* before the step.
C21_NoUpdateOfDestroyed ==
    [][\A id \in DOMAIN heap :
         heap[id].displayObject.destroyed => heap'[id].data.x = heap[id].data.x]_vars


(***************************************************************************)
(* Ownership of the live list (SpecRenderer).                              *)
(***************************************************************************)
\* Fragment id is in the depth container of its own layer key.
AttachedToOwnLayer(r, cloud, id) ==
    /\ cloud.data.depthLayer \in DOMAIN r.depthContainers
    /\ id \in r.depthContainers[cloud.data.depthLayer]

\* C22: every fragment created and not yet destroyed is in the live list and
\* attached to the depth container of its layer key, and no fragment leaves
\* the live list without having been destroyed.
C22_LiveListOwnsFragments ==
    [][/\ \A id \in DOMAIN heap' :
            ~heap'[id].displayObject.destroyed
              => /\ id \in Range(renderer'.cloudFragments)
                 /\ AttachedToOwnLayer(renderer', heap'[id], id)
       /\ \A id \in Range(renderer.cloudFragments) \ Range(renderer'.cloudFragments) :
            heap'[id].displayObject.destroyed]_vars


\* The live fragments of layer key k.
LiveOfLayer(r, h, k) == {id \in Range(r.cloudFragments) : h[id].data.depthLayer = k}

\* The step completes a spawn that a spawn check started.
CheckSpawnLands ==
    /\ workerQueue # <<>>
    /\ Head(workerQueue).kind = "generate"
    /\ lastOp'.op = "created"
    /\ LET p == tasks[Head(workerQueue).waiter].parent
       IN  p \in DOMAIN tasks /\ tasks[p].kind = "check"
    /\ Len(renderer'.cloudFragments) > Len(renderer.cloudFragments)

\* C23: while a settings-driven respawn is in progress (isUpdatingSettings
\* set) no fragment started by a spawn check is added to the live list and
\* no spawn check recycles a fragment, and when the respawn finishes (no
\* synthesis having failed) the live list holds exactly one fragment per
\* planned slot of the new per-layer targets.
C23_RespawnIsExclusive ==
    [][renderer.isUpdatingSettings =>
         /\ ~CheckSpawnLands
         /\ ~(lastOp'.cleanup.ran /\ lastOp'.cleanup.due # <<>>)
         /\ (~renderer'.isUpdatingSettings /\ budget'.failures = MaxFailures)
              => \A k \in DOMAIN renderer'.currentDepthLayers :
                   Cardinality(LiveOfLayer(renderer', heap', k))
                     = calculateCloudCountsPerLayer(renderer')[k]]_vars


\* The cap of spawns per layer in one spawn check.
maxSpawnPerFrame == 2

\* C24: for each depth layer, the number of live fragments assigned to the
\* layer never exceeds the layer's target count by more than the per-check
\* spawn cap.
C24_LayerCountWithinCap ==
    \A k \in DOMAIN renderer.currentDepthLayers :
      Cardinality(LiveOfLayer(renderer, heap, k))
        <= calculateCloudCountsPerLayer(renderer)[k] + maxSpawnPerFrame


(***************************************************************************)
(* Drift and recycling over the lifetime of the clouds.  Frames keep       *)
(* firing, each with its spawn check due, while fewer than MaxDriftPending *)
(* worker calls are waiting.  The worker synthesizes MaxDriftClouds        *)
(* fragments in all and rejects every later synthesis call (spawnCloud     *)
(* then returns null), which keeps the heap finite while the frames go on. *)
(***************************************************************************)
MaxDriftClouds == 5

MaxDriftPending == 2

\* The worker is not behind by MaxDriftPending calls or more.
FrameSettled ==
    /\ renderer.started
    /\ Len(workerQueue) < MaxDriftPending
    /\ gradientQueue = <<>>

DriftFrame ==
    /\ FrameSettled
    /\ Apply(update(World, FALSE, TRUE, DeltaTime), "frame")
    /\ UNCHANGED <<budget, pureVars>>

\* The data worker answers its oldest call, or rejects it when it is a
\* synthesis beyond MaxDriftClouds.
DriftWorkerAnswers ==
    /\ workerQueue # <<>>
    /\ LET call == Head(workerQueue)
           w == [World EXCEPT !.workerQueue = Tail(@)]
       IN  IF call.kind = "generate" /\ Len(heap) >= MaxDriftClouds
             THEN Apply(spawnCloudFailed(w, call.waiter), "failed")
           ELSE IF call.kind = "generate"
             THEN \E layerDraw \in RandomDraws, xDraw \in RandomDraws :
                    LET layerKeys == DOMAIN call.depthLayers
                        k == (layerDraw * Cardinality(layerKeys)) \div SCALE
                    IN  Apply(spawnCloudCreated(
                                w, call.waiter,
                                generateFullCloudData(<<"ok">>,
                                                      FragmentData(call.depthLayers[k].depth),
                                                      call.skyGradient),
                                xDraw), "created")
           ELSE Apply(reshadeAnswered(w, call), "reshaded")
    /\ UNCHANGED <<budget, pureVars>>

InitDrift ==
    InitRendererWith([ticks |-> 0, settings |-> 0, times |-> 0, failures |-> 0])

NextDrift == DriftFrame \/ DriftWorkerAnswers \/ GradientAnswers

\* The frames keep running and every call is answered.  Each action is
\* enabled exactly when its condition below holds, and the fairness is
\* written with that condition in the place of ENABLED.
SpecDrift ==
    /\ InitDrift
    /\ [][NextDrift]_vars
    /\ ([]<>(~FrameSettled) \/ []<><<DriftFrame>>_vars)
    /\ ([]<>(workerQueue = <<>>) \/ []<><<DriftWorkerAnswers>>_vars)
    /\ ([]<>(gradientQueue = <<>>) \/ []<><<GradientAnswers>>_vars)

InLiveList(id) == id \in DOMAIN heap /\ id \in Range(renderer.cloudFragments)

Recycled(id) ==
    /\ id \in DOMAIN heap
    /\ heap[id].displayObject.destroyed
    /\ id \notin Range(renderer.cloudFragments)

sunriseTime == 23400

sunsetTime == 70200

solarNoonTime == 46800

endOfDay == 86400

todaySolarEvents ==
    <<[name |-> "deep_night", time |-> 0],
      [name |-> "night_before_dawn", time |-> sunriseTime - 2 * 3600],
      [name |-> "dawn", time |-> sunriseTime - 3600],
      [name |-> "sunrise", time |-> sunriseTime],
      [name |-> "morning", time |-> sunriseTime + 3600],
      [name |-> "solar_noon_transition", time |-> solarNoonTime - 2 * 3600],
      [name |-> "solar_noon", time |-> solarNoonTime],
      [name |-> "afternoon", time |-> solarNoonTime + 5 * 60],
      [name |-> "evening_transition", time |-> sunsetTime - 2 * 3600],
      [name |-> "sunset", time |-> sunsetTime],
      [name |-> "dusk", time |-> sunsetTime + 3600],
      [name |-> "night_after_dusk", time |-> sunsetTime + 2 * 3600],
      [name |-> "deep_night", time |-> sunsetTime + 3 * 3600]>>

\* The period of the schedule that holds nowTs (a time of the day).
determineCurrentTimePeriod(nowTs) ==
    LET events == todaySolarEvents
        nextTime(i) == IF i < Len(events) THEN events[i + 1].time ELSE endOfDay
        holding == {i \in DOMAIN events : nowTs >= events[i].time /\ nowTs < nextTime(i)}
    IN  IF holding = {}
          THEN [name |-> "deep_night", startTime |-> nowTs, endTime |-> nowTs + 3600]
          ELSE LET i == CHOOSE j \in holding : \A k \in holding : j <= k
               IN  [name |-> events[i].name, startTime |-> events[i].time,
                    endTime |-> nextTime(i)]

\* The sun position, as far as the sky-gradient worker reads it.
calculateSunPosition(nowTs) ==
    [currentTimePeriod |-> determineCurrentTimePeriod(nowTs)]

\* The descriptor object the sky-gradient service returns for time nowTs, as
\* far as the clouds and the significance test read it.
skyGradientObjectAt(id, nowTs) ==
    LET g == generateSkyGradientAt(calculateSunPosition(nowTs), nowTs)
    IN  [id |-> id,
         lightDirection |-> g.lightDirection,
         cloudBaseColor |-> g.cloudBaseColor,
         cloudHighlightColor |-> g.cloudHighlightColor,
         cloudShadowColor |-> g.cloudShadowColor,
         gradientType |-> g.gradientType]

\* updateSunPosition from the service's answer newSkyGradient on.
sunGradientReadyWith(w, s, newSkyGradient) ==
    LET changed == skyGradientChangedSignificantly(w.renderer.currentSkyGradient,
                                                   newSkyGradient)
        w1 == [w EXCEPT !.renderer.currentSkyGradient = newSkyGradient]
    IN  IF changed THEN sunBatch(w1, s) ELSE completeTask(w1, s, 0)

\* The interval of the periodic sun update, in seconds.
SUN_UPDATE_INTERVAL == 60

\* The clock when the page is opened, and when the run is left.
StartClocks == {22380, 22400, 22420}

MaxClock == 23600

InitTwilight ==
    /\ renderer =
         initializeDepthLayers(
           [cloudFragments |-> <<>>, depthContainers |-> <<>>,
            currentDepthLayers |-> <<>>, cloudSettings |-> InitialSettings,
            currentSkyGradient |-> NoGradient, customTime |-> "none",
            isUpdatingSettings |-> FALSE, started |-> FALSE])
    /\ tasks = <<[NewTask("initialize", "sun", 0) EXCEPT !.pending = 1],
                 [NewTask("sun", "gradient", 1) EXCEPT !.time = Now]>>
    /\ gradientQueue = <<2>>
    /\ heap = <<>>
    /\ workerQueue = <<>>
    /\ lastOp = NoLog
    /\ budget = NoBudget
    /\ \E start \in StartClocks : request = [kind |-> "clock", now |-> start]
    /\ response = NoResponse

\* The first frame after SUN_UPDATE_INTERVAL has passed: the sun update is due.
TwilightRefresh ==
    /\ renderer.started
    /\ tasks = <<>>
    /\ request.now + SUN_UPDATE_INTERVAL <= MaxClock
    /\ request' = [request EXCEPT !.now = @ + SUN_UPDATE_INTERVAL]
    /\ Apply(update(World, TRUE, FALSE, 0), "refresh")
    /\ UNCHANGED <<budget, response>>

\* The sky-gradient service answers the sun update for the time it was given.
TwilightGradientAnswers ==
    /\ gradientQueue # <<>>
    /\ LET w == [World EXCEPT !.gradientQueue = Tail(@)]
       IN  Apply(sunGradientReadyWith(
                   w, Head(gradientQueue),
                   skyGradientObjectAt(FreshGradientId(w), request.now)), "gradient")
    /\ UNCHANGED <<budget, pureVars>>

NextTwilight == TwilightRefresh \/ TwilightGradientAnswers \/ WorkerAnswers

SpecTwilight == InitTwilight /\ [][NextTwilight]_vars

\* The two descriptors differ by no more than the significance thresholds.
WithinThresholds(a, b) ==
    /\ a.gradientType = b.gradientType
    /\ a.lightDirection.x - b.lightDirection.x <= 10
    /\ b.lightDirection.x - a.lightDirection.x <= 10
    /\ a.lightDirection.y - b.lightDirection.y <= 10
    /\ b.lightDirection.y - a.lightDirection.y <= 10
    /\ \A i \in 1..3 : /\ a.cloudBaseColor[i] - b.cloudBaseColor[i] <= 50
                       /\ b.cloudBaseColor[i] - a.cloudBaseColor[i] <= 50

\* C26: when a lighting refresh has completed (nothing is pending and no
\* fragment is busy), the descriptor applied to every live, drawn fragment
\* differs from the renderer's current descriptor by no more than the
\* significance thresholds.
C26_AppliedDescriptorIsCurrent ==
    (/\ renderer.started
     /\ tasks = <<>>
     /\ workerQueue = <<>>
     /\ gradientQueue = <<>>)
      => \A id \in Range(renderer.cloudFragments) :
           (heap[id].hasBeenDrawn /\ ~heap[id].isUpdatingSkyGradient)
             => WithinThresholds(heap[id].skyGradient, renderer.currentSkyGradient)


(***************************************************************************)
(* The colours a re-shade leaves on the pixels (SpecFragment).             *)
(***************************************************************************)
\* What the worker computes for entry i of a re-shading call alone: the
\* colour from that entry's own attributes, or nothing when it skips it.
OwnColors(call, i) ==
    workerResult([call EXCEPT !.pixelProps = <<call.pixelProps[i]>>]).colors

FullAnswerHoldsOwnColor ==
    [][(/\ lastOp'.op = "reply"
        /\ lastOp'.outcome = "applied"
        /\ ~lastOp'.mismatch
        /\ workerQueue # <<>>) =>
         LET call == Head(workerQueue)
             after == heap'[lastOp'.cloud].pixelProperties
         IN  \A i \in DOMAIN call.pixelProps :
               (i \in DOMAIN after /\ OwnColors(call, i) # <<>>)
                 => after[i].color = OwnColors(call, i)[1]]_vars


(***************************************************************************)
(* The sky gradient along the day's schedule: the sun calculator's period  *)
(* for a time of the day, handed to the sky-gradient worker.               *)
(***************************************************************************)
\* Every five minutes of the day, and the last minute of solar noon.
DayStep == 300

DayTimes == {t * DayStep : t \in 0..((endOfDay \div DayStep) - 1)} \cup {solarNoonTime + 270}

InitDay ==
    /\ \E now \in DayTimes : request = [kind |-> "day", now |-> now]
    /\ response = NoResponse
    /\ heap = <<>>
    /\ workerQueue = <<>>
    /\ lastOp = NoOp
    /\ RendererIdle

\* SkyGradientService.generateSkyGradient at the time request.now.
DaySkyGradient ==
    /\ request.kind = "day"
    /\ response.state = "none"
    /\ LET sunPosition == calculateSunPosition(request.now)
       IN  response' =
             [state |-> "returned",
              sunPosition |-> sunPosition,
              transitionInfo |-> calculateTransitionInfo(sunPosition, request.now),
              skyGradient |-> generateSkyGradientAt(sunPosition, request.now)]
    /\ UNCHANGED <<request, heap, workerQueue, lastOp, renderer, tasks,
                   gradientQueue, budget>>

NextDay == DaySkyGradient

SpecDay == InitDay /\ [][NextDay]_vars

\* The name of the period that begins when period ends (the schedule of the
\* next day is the same schedule).
BeginsNext(period) == determineCurrentTimePeriod(period.endTime % endOfDay).name

\* C28: whenever the descriptor is a blend, the phase blended toward is the
\* phase that begins when the current period ends in the day's schedule; a
\* period followed by a period of the same phase is not blended at all.
C28_BlendsTowardWhatBeginsNext ==
    response.state = "returned" =>
      LET period == response.sunPosition.currentTimePeriod
          info == response.transitionInfo
      IN  /\ (info.isTransitioning /\ info.nextTimeOfDayName # period.name)
               => info.nextTimeOfDayName = BeginsNext(period)
          /\ BeginsNext(period) = period.name
               => response.skyGradient = unmixedSkyGradient(period.name)

\* The same for every period but the one that ends the day.
BlendsTowardNextBeforeEvening ==
    (response.state = "returned"
       /\ response.sunPosition.currentTimePeriod.endTime < endOfDay) =>
      LET period == response.sunPosition.currentTimePeriod
          info == response.transitionInfo
      IN  /\ (info.isTransitioning /\ info.nextTimeOfDayName # period.name)
               => info.nextTimeOfDayName = BeginsNext(period)
          /\ BeginsNext(period) = period.name
               => response.skyGradient = unmixedSkyGradient(period.name)

\* A blend was computed in the last quarter of a period.
BlendComputed ==
    /\ response.state = "returned"
    /\ response.transitionInfo.isTransitioning
    /\ response.transitionInfo.progress > 0
    /\ response.skyGradient
         # unmixedSkyGradient(response.sunPosition.currentTimePeriod.name)


(***************************************************************************)
(* The brightness of one pixel through its synthesis and re-shadings.      *)
(* The grid cell is an input: its density is above densityThreshold, and   *)
(* the synthesis marks every cell of density below 0.4 as an edge cell.    *)
(***************************************************************************)
CellDensities == {101, 250, 399, 400, 700, 1000}

CellCoordinates == {-1000, 0, 999}

CellTextures == {-100, 0, 100}

LayerDepths == {0, 500, 1000}

MaxReshades == 2

CellGeoms ==
    {geom \in [nx : CellCoordinates, ny : CellCoordinates, density : CellDensities,
               isEdge : BOOLEAN, edgeDistance : {100}, texNoise : CellTextures] :
       /\ geom.density > densityThreshold
       /\ geom.density < 400 => geom.isEdge}

\* The untransitioned descriptor of every phase, and none.
PhaseGradients == {generateSkyGradient(1, name) : name \in TimeOfDayNames} \cup {NoGradient}

InitPixel ==
    /\ \E geom \in CellGeoms, depth \in LayerDepths,
          g \in {NoGradient, generateSkyGradient(1, "solar_noon")} :
         request =
           [kind |-> "pixel",
            pixelProps |-> <<generatePixel(geom, FragmentData(depth), g)>>,
            fragmentData |-> FragmentData(depth),
            reshades |-> 0]
    /\ response = NoResponse
    /\ heap = <<>>
    /\ workerQueue = <<>>
    /\ lastOp = NoOp
    /\ RendererIdle

\* The pixel is re-coloured: recalculatePixelColors, its answer written back.
PixelRecolour ==
    /\ request.kind = "pixel"
    /\ request.reshades < MaxReshades
    /\ \E g \in PhaseGradients :
         LET colors == recalculatePixelColors(request.pixelProps, g)
         IN  /\ request' = [request EXCEPT
                              !.pixelProps = <<[@[1] EXCEPT !.color = colors[1]]>>,
                              !.reshades = @ + 1]
             /\ response' = [state |-> "returned", op |-> "colors"]
    /\ UNCHANGED <<heap, workerQueue, lastOp, renderer, tasks, gradientQueue, budget>>

\* The pixel is re-shaded: recalculatePixelColorsAndShadows, its answer written back.
PixelReshadow ==
    /\ request.kind = "pixel"
    /\ request.reshades < MaxReshades
    /\ \E g \in PhaseGradients :
         LET result == recalculatePixelColorsAndShadows(request.pixelProps, g,
                                                        request.fragmentData)
         IN  /\ request' = [request EXCEPT
                              !.pixelProps = <<[result.updatedPixelProps[1] EXCEPT
                                                  !.color = result.colors[1]]>>,
                              !.reshades = @ + 1]
             /\ response' = [state |-> "returned", op |-> "shadows"]
    /\ UNCHANGED <<heap, workerQueue, lastOp, renderer, tasks, gradientQueue, budget>>

NextPixel == PixelRecolour \/ PixelReshadow

SpecPixel == InitPixel /\ [][NextPixel]_vars

\* C29: after the synthesis and after any sequence of re-shadings, the
\* brightness of every pixel lies in [0.4, 1.0].
C29_BrightnessInFixedRange ==
    request.kind = "pixel" =>
      \A i \in DOMAIN request.pixelProps :
        /\ request.pixelProps[i].brightness >= 400
        /\ request.pixelProps[i].brightness <= SCALE

\* A re-shading has recomputed the brightness of a thin interior cell of the
\* nearest layer, lit from behind: the darkest a pixel gets.
C29_Witness ==
    /\ request.kind = "pixel"
    /\ response.state = "returned"
    /\ response.op = "shadows"
    /\ ~request.pixelProps[1].isEdge
    /\ request.pixelProps[1].shadowFactor = 100
    /\ request.pixelProps[1].brightness < 420


(***************************************************************************)
(* The speed of the live fragments (SpecRenderer).                         *)
(***************************************************************************)
\* No spawn, no population build and no settings update is in progress.
NoSpawnInProgress ==
    /\ renderer.started
    /\ ~renderer.isUpdatingSettings
    /\ \A t \in DOMAIN tasks :
         tasks[t].kind \notin {"spawn", "settings", "initial", "check", "initialize"}

LiveFragments ==
    {id \in Range(renderer.cloudFragments) : ~heap[id].displayObject.destroyed}

\* Every live fragment of a layer of the renderer moves at the settings
\* speed times that layer's speed multiplier.
SpeedFollowsLayer ==
    NoSpawnInProgress =>
      \A id \in LiveFragments :
        heap[id].data.depthLayer \in DOMAIN renderer.currentDepthLayers
          => heap[id].data.speed =
               Mul(renderer.cloudSettings.speed,
                   renderer.currentDepthLayers[heap[id].data.depthLayer].speedMultiplier)

\* Every live fragment moves at the settings speed times the multiplier it
\* recorded when it was spawned.
SpeedFollowsRecordedMultiplier ==
    NoSpawnInProgress =>
      \A id \in LiveFragments :
        heap[id].data.speed =
          Mul(renderer.cloudSettings.speed, heap[id].data.speedMultiplier)

\* The step is a settings change that alters the speed only.
SpeedOnlyChange ==
    /\ lastOp'.op = "settings"
    /\ renderer'.cloudSettings.speed # renderer.cloudSettings.speed
    /\ renderer'.cloudSettings.depthLayers = renderer.cloudSettings.depthLayers
    /\ renderer'.cloudSettings.cloudCount = renderer.cloudSettings.cloudCount

\* A speed-only change re-speeds the live fragments in place: it creates and
\* destroys no fragment and starts nothing.
SpeedChangeInPlace ==
    [][SpeedOnlyChange =>
         /\ DOMAIN heap' = DOMAIN heap
         /\ renderer'.cloudFragments = renderer.cloudFragments
         /\ tasks' = tasks
         /\ workerQueue' = workerQueue
         /\ \A id \in DOMAIN heap :
              /\ heap'[id].displayObject = heap[id].displayObject
              /\ id \in Range(renderer.cloudFragments)
                   => heap'[id].data.speed =
                        Mul(renderer'.cloudSettings.speed, heap[id].data.speedMultiplier)]_vars

\* C30: whenever no spawn and no settings update is in progress, every live
\* fragment's speed is the current settings speed times the speed multiplier
\* of the fragment's layer; and a settings change that alters only the speed
\* establishes this in place, creating and destroying no fragment.
C30_SpeedFollowsSettings ==
    /\ []SpeedFollowsLayer
    /\ SpeedChangeInPlace

=============================================================================
